---- MODULE Spec2Model ----
(***************************************************************************)
(* Model of the EncryptedGallery contract (contracts/EncryptedGallery.sol) *)
(* together with the FHE access-control list it drives (FHE.allow,         *)
(* FHE.allowThis, user decryption through the gateway).                    *)
(*                                                                         *)
(* Every external function of the contract is one action.  A transaction   *)
(* that reverts leaves storage, balances, the ACL and the event log as     *)
(* they were; the only trace of it is lastCall / lastResult, which record  *)
(* the call that was made and what the caller got back, until the caller   *)
(* has taken the receipt (txWait).  The view functions and the gateway's   *)
(* decryption are read-only and are operators on the state.                *)
(*                                                                         *)
(* Six specifications share the actions of the contract.  Spec has every   *)
(* account call the contract directly with every input.  RaceSpec has the  *)
(* gallery page submit purchases that the chain includes later, in any     *)
(* order.  PublishSpec has the page encrypt a file, upload the payload to  *)
(* the blob store and list the item.  ReentrySpec has purchases whose      *)
(* payout runs code that calls the contract again.  PageSpec has the       *)
(* handlers of the listing form wait for their results while the user goes *)
(* on using the form.  UnlockSpec has the page show the items to the       *)
(* connected account and unlock them step by step.                         *)
(* Two specifications are about the page's libraries alone: CryptoSpec     *)
(* calls encryptContent and decryptContent of utils/crypto.ts on bytes,    *)
(* StoreSpec stores to and fetches from the blob store.                    *)
(*                                                                         *)
(* Amounts are counted in gwei (0.001 ether = 1000000 gwei).  Every call   *)
(* that succeeds advances the clock by one second: a transaction is mined  *)
(* in a block of its own.                                                  *)
(* Revert strings stand for the error names of the specification:          *)
(*   "Image missing"      NotFoundError                                    *)
(*   "Creator restricted" SelfPurchaseError                                *)
(*   "Already purchased"  AlreadyPurchasedError                            *)
(*   "Incorrect price"    PriceMismatchError                               *)
(*   "Not creator"        NotAuthorizedError                               *)
(*   "Invalid hash", "Invalid account"  InvalidInputError                  *)
(***************************************************************************)
EXTENDS Integers, Sequences, FiniteSets, TLC

----------------------------------------------------------------------------
(* Bounds of the model *)

MaxImages == 2
\* the number of transactions that succeed
MaxTxs == 3
MaxPending == 2
\* the length in bytes of the longest content that is encrypted
MaxPlain == 2

----------------------------------------------------------------------------
(* Program constants and value spaces *)

ACCESS_PRICE == 1000000

ZeroAddress == "0x0"
Gallery == "gallery"
Addr == {"alice", "bob", "carol"}
InitBalance == 2 * ACCESS_PRICE
Accounts == Addr \cup {ZeroAddress}

ImageIds == 0 .. MaxImages
Handles == 0 .. MaxImages
\* the identity secret is generated afresh for every item: the n-th listing
\* seals the n-th of these values
Secrets == <<5, 15, 4444, 987654321>>
IpfsHashes == {"", "ipfs://sample-hash"}
Payments == {0, ACCESS_PRICE - 1, ACCESS_PRICE, ACCESS_PRICE + 1}

ZeroImage == [creator |-> ZeroAddress, ipfsHash |-> "", encryptedKey |-> 0, createdAt |-> 0]

\* the gallery page: the files a user may select, the private keys of the
\* wallets it generates, the initialisation vectors it draws, and the
\* content ids the blob store gives out
Files == {"cat.png"}
\* the files of a user who changes the selection
Pictures == Files \cup {"dog.png"}
WalletKeys == {Secrets[3], Secrets[4]}
Ivs == {101}
Cids == {"pseudo-19a", "pseudo-19b"}

VARIABLES
    nextImageId,      \* _nextImageId
    images,           \* _images
    purchased,        \* _hasPurchased
    cleartext,        \* the value sealed under each handle (FHE.fromExternal)
    acl,              \* who is allowed on each handle (FHE.allowThis, FHE.allow)
    balance,          \* account balances, the contract's included
    events,           \* the event log, in emission order
    grants,           \* the grantAccess calls that succeeded, with their senders
    blockTimestamp,   \* block.timestamp of the next transaction
    pre,              \* the state the last transaction started from
    lastCall,         \* the call the last step made, NoCall once it was taken
    lastResult,       \* what that call returned, or the reason of its revert
    mempool,          \* purchases the clients have submitted, with their receipts
    pseudoStorage,    \* the blob store: the payload kept under each content id
    page,             \* selectedFile, prepared and ipfsHash of the gallery page
    crypto,           \* the last call of encryptContent or decryptContent
    blobs,            \* a user of the blob store: its buffer, its handles, its last fetch
    frame,            \* the purchase that waits in its payout, if one does
    inflight,         \* the handlers of the page that wait for a result
    gallery           \* the items the page shows, and the unlock under way

chain == <<nextImageId, images, purchased, cleartext, acl, balance, events, grants>>
vars == <<nextImageId, images, purchased, cleartext, acl, balance, events, grants,
          blockTimestamp, pre, lastCall, lastResult, mempool, pseudoStorage, page,
          crypto, blobs, frame, inflight, gallery>>
\* what the calls of the library functions act on, the call stack, and the
\* handlers in flight
aside == <<crypto, blobs, frame, inflight, gallery>>
client == <<mempool, pseudoStorage, page, aside>>

\* The state a transaction starts from, which a revert restores
snapshot ==
    [nextImageId |-> nextImageId, images |-> images, purchased |-> purchased,
     cleartext |-> cleartext, acl |-> acl, balance |-> balance, events |-> events,
     grants |-> grants, blockTimestamp |-> blockTimestamp]

----------------------------------------------------------------------------
(* Records of the call made by a step and of its outcome *)

Call(op, sender, imageId, value, account, ipfsHash, secret, sent) ==
    [op |-> op, sender |-> sender, imageId |-> imageId, value |-> value,
     account |-> account, ipfsHash |-> ipfsHash, secret |-> secret, sent |-> sent]

Result(status, num, flag, image) ==
    [status |-> status, num |-> num, flag |-> flag, image |-> image]

NoCall == Call("none", ZeroAddress, 0, 0, ZeroAddress, "", 0, TRUE)

Ok == Result("ok", 0, FALSE, ZeroImage)
Revert(msg) == Result(msg, 0, FALSE, ZeroImage)

ImageListed(imageId, creator, ipfsHash) ==
    [name |-> "ImageListed", imageId |-> imageId, account |-> creator,
     ipfsHash |-> ipfsHash, pricePaid |-> 0]
ImagePurchased(imageId, buyer, pricePaid) ==
    [name |-> "ImagePurchased", imageId |-> imageId, account |-> buyer,
     ipfsHash |-> "", pricePaid |-> pricePaid]
AccessGranted(imageId, account) ==
    [name |-> "AccessGranted", imageId |-> imageId, account |-> account,
     ipfsHash |-> "", pricePaid |-> 0]

----------------------------------------------------------------------------
(* Content encryption.  A payload is the initialisation vector, in clear,  *)
(* followed by the AES-GCM ciphertext of the content, which only the key   *)
(* opens.                                                                   *)

NoPayload == [header |-> <<>>, body |-> [key |-> 0, plain |-> ""]]

\* faulty variant: the key is written in front of the ciphertext
encryptContentKeyInHeader(plain, key, iv) ==
    [header |-> <<iv, key>>, body |-> [key |-> key, plain |-> plain]]

encryptContent(plain, key, iv) ==
    [header |-> <<iv>>, body |-> [key |-> key, plain |-> plain]]

\* the state of a page on which nothing is selected
NoPage == [selectedFile |-> "", prepared |-> FALSE, keyBigInt |-> 0,
           payload |-> NoPayload, ipfsHash |-> ""]

----------------------------------------------------------------------------
(* utils/crypto.ts at the level of bytes.  A string of hexadecimal digits  *)
(* is the sequence of its characters, a digit being its value and x the    *)
(* letter of the 0x prefix; a byte array is a sequence of bytes.  A call   *)
(* ends in an Outcome: the bytes it returns or the message of the error it *)
(* throws, with the operations of crypto.subtle it has attempted.  AES-GCM *)
(* is represented by a cipher of the same shape: the ciphertext is the     *)
(* content combined byte by byte with a keystream of key and iv, followed  *)
(* by a tag of 16 bytes over key, iv and ciphertext, which decryption      *)
(* checks before it returns the content.                                   *)

AES_IV_LENGTH == 12
\* the tag length of AES-GCM when the caller gives none: 128 bits
AES_TAG_LENGTH == 16

x == 16
\* characters that are no hexadecimal digit make parseInt stop
parseInt(pair) ==
    IF pair[1] = x THEN 0
    ELSE IF pair[2] = x THEN pair[1]
    ELSE 16 * pair[1] + pair[2]

Outcome(status, bytes, ops) == [status |-> status, bytes |-> bytes, ops |-> ops]
Returned(bytes, ops) == Outcome("ok", bytes, ops)
Thrown(msg, ops) == Outcome(msg, <<>>, ops)

startsWith0x(hex) == Len(hex) >= 2 /\ hex[1] = 0 /\ hex[2] = x

hexToBytes(hex) ==
    LET clean == IF startsWith0x(hex) THEN SubSeq(hex, 3, Len(hex)) ELSE hex
    IN  IF Len(clean) % 2 # 0
        THEN Thrown("Invalid hex string", <<>>)
        ELSE Returned([i \in 1 .. (Len(clean) \div 2) |->
                          parseInt(SubSeq(clean, 2 * i - 1, 2 * i))], <<>>)

\* faulty variant: a key longer than 32 bytes is accepted
importAesKeyAtLeast32(keyHex) ==
    LET keyBytes == hexToBytes(keyHex)
    IN  IF keyBytes.status # "ok" THEN keyBytes
        ELSE IF Len(keyBytes.bytes) < 32
        THEN Thrown("AES key must be 32 bytes (256 bits)", <<>>)
        ELSE Returned(keyBytes.bytes, <<"importKey">>)

importAesKey(keyHex) ==
    LET keyBytes == hexToBytes(keyHex)
    IN  IF keyBytes.status # "ok" THEN keyBytes
        ELSE IF Len(keyBytes.bytes) # 32
        THEN Thrown("AES key must be 32 bytes (256 bits)", <<>>)
        ELSE Returned(keyBytes.bytes, <<"importKey">>)

RECURSIVE Sum(_)
Sum(bytes) == IF bytes = <<>> THEN 0 ELSE bytes[1] + Sum(Tail(bytes))

keystream(key, iv, n) ==
    (key[((n - 1) % 32) + 1] + iv[((n - 1) % AES_IV_LENGTH) + 1] + Sum(key) + n) % 256

gcmTag(key, iv, cipher) ==
    [j \in 1 .. AES_TAG_LENGTH |->
        (key[j] + key[j + 16] + iv[((j - 1) % AES_IV_LENGTH) + 1]
         + j * Sum(cipher) + Len(cipher)) % 256]

\* crypto.subtle.encrypt({name: 'AES-GCM', iv}, key, plain)
subtleEncrypt(key, iv, plain) ==
    LET cipher == [n \in 1 .. Len(plain) |-> (plain[n] + keystream(key, iv, n)) % 256]
    IN  cipher \o gcmTag(key, iv, cipher)

\* crypto.subtle.decrypt({name: 'AES-GCM', iv}, key, data): fails unless data
\* ends with the tag of what precedes it
subtleDecrypt(key, iv, data) ==
    IF Len(data) < AES_TAG_LENGTH
    THEN Thrown("OperationError", <<"importKey", "decrypt">>)
    ELSE LET cipher == SubSeq(data, 1, Len(data) - AES_TAG_LENGTH)
             tag == SubSeq(data, Len(data) - AES_TAG_LENGTH + 1, Len(data))
         IN  IF tag # gcmTag(key, iv, cipher)
             THEN Thrown("OperationError", <<"importKey", "decrypt">>)
             ELSE Returned([n \in 1 .. Len(cipher) |->
                               (cipher[n] - keystream(key, iv, n)) % 256],
                           <<"importKey", "decrypt">>)

\* encryptContent, the initialisation vector it draws being iv
encryptContentBytes(plain, keyHex, iv) ==
    LET key == importAesKey(keyHex)
    IN  IF key.status # "ok" THEN key
        ELSE Returned(iv \o subtleEncrypt(key.bytes, iv, plain),
                      <<"importKey", "encrypt">>)

\* faulty variant: the ciphertext is taken from the last byte of the
\* initialisation vector on
decryptContentOverlap(payload, keyHex) ==
    IF Len(payload) <= AES_IV_LENGTH
    THEN Thrown("Encrypted payload too short", <<>>)
    ELSE LET iv == SubSeq(payload, 1, AES_IV_LENGTH)
             ciphertext == SubSeq(payload, AES_IV_LENGTH, Len(payload))
             key == importAesKey(keyHex)
         IN  IF key.status # "ok" THEN key
             ELSE subtleDecrypt(key.bytes, iv, ciphertext)

\* variant that refuses every payload too short to hold a tag
decryptContentMinLength(payload, keyHex) ==
    IF Len(payload) < AES_IV_LENGTH + AES_TAG_LENGTH
    THEN Thrown("Encrypted payload too short", <<>>)
    ELSE LET iv == SubSeq(payload, 1, AES_IV_LENGTH)
             ciphertext == SubSeq(payload, AES_IV_LENGTH + 1, Len(payload))
             key == importAesKey(keyHex)
         IN  IF key.status # "ok" THEN key
             ELSE subtleDecrypt(key.bytes, iv, ciphertext)

decryptContent(payload, keyHex) ==
    IF Len(payload) <= AES_IV_LENGTH
    THEN Thrown("Encrypted payload too short", <<>>)
    ELSE LET iv == SubSeq(payload, 1, AES_IV_LENGTH)
             ciphertext == SubSeq(payload, AES_IV_LENGTH + 1, Len(payload))
             key == importAesKey(keyHex)
         IN  IF key.status # "ok" THEN key
             ELSE subtleDecrypt(key.bytes, iv, ciphertext)

\* the keys given to the two functions: two of 256 bits, the second with
\* leading zero bytes and without the prefix, one of 31 bytes, one with an
\* odd number of digits and one of 33 bytes
KeyHexes ==
    { <<0, x>> \o [i \in 1 .. 64 |-> (7 * i) % 16],
      [i \in 1 .. 64 |-> IF i <= 4 THEN 0 ELSE (i + 3) % 16],
      <<0, x>> \o [i \in 1 .. 62 |-> (5 * i) % 16],
      <<0, x>> \o [i \in 1 .. 63 |-> (3 * i) % 16],
      <<0, x>> \o [i \in 1 .. 66 |-> (9 * i) % 16] }

\* Wallet.createRandom().privateKey: 0x and 64 digits.  One key without a
\* leading zero, one with two leading zero bytes, one with a single leading
\* zero digit, and the number one
PrivateKeys ==
    { <<0, x>> \o [i \in 1 .. 64 |-> (7 * i) % 16],
      <<0, x>> \o [i \in 1 .. 64 |-> IF i <= 4 THEN 0 ELSE (i + 3) % 16],
      <<0, x>> \o [i \in 1 .. 64 |-> IF i = 1 THEN 0 ELSE (11 * i) % 16],
      <<0, x>> \o [i \in 1 .. 64 |-> IF i < 64 THEN 0 ELSE 1] }

\* An integer of up to 256 bits is written as its numeral in base 16 without
\* leading zeros, the empty numeral being zero.
RECURSIVE stripZeros(_)
stripZeros(digits) ==
    IF digits # <<>> /\ digits[1] = 0 THEN stripZeros(Tail(digits)) ELSE digits

\* BigInt(hex) for a string that starts with 0x
BigInt(hex) == stripZeros(SubSeq(hex, 3, Len(hex)))

\* BigInt.prototype.toString(16)
bigToString16(big) == IF big = <<>> THEN <<0>> ELSE big

\* faulty variant: the string is not padded
padStartNone(str, targetLength, pad) == str

\* String.prototype.padStart(targetLength, padString) for a pad of one character
padStart(str, targetLength, pad) ==
    IF Len(str) >= targetLength THEN str
    ELSE [j \in 1 .. (targetLength - Len(str)) |-> pad] \o str

\* `0x${keyBigInt.toString(16).padStart(64, '0')}` for the unsealed integer
unsealedKeyHex(keyBigInt) == <<0, x>> \o padStart(bigToString16(keyBigInt), 64, 0)

\* the values crypto.getRandomValues may give for the initialisation vector
RandomIvs == { [i \in 1 .. AES_IV_LENGTH |-> i],
               [i \in 1 .. AES_IV_LENGTH |-> (200 + 5 * i) % 256] }

\* the contents: every sequence of at most MaxPlain of these bytes
PlainBytes == {0, 137}
Plains == UNION {[1 .. n -> PlainBytes] : n \in 0 .. MaxPlain}

\* no handler of the page waits: encrypting and publishing are false
NoFlight == [encrypting |-> "", publishing |-> FALSE, keyBigInt |-> 0, ipfsHash |-> ""]

\* an entry of the page's list of items, as fetchGallery makes it
GalleryItem(shown, hasAccess) ==
    [shown |-> shown, hasAccess |-> hasAccess, decrypting |-> FALSE,
     decryptedImageUrl |-> "", decryptedKeyHex |-> <<>>]

\* no unlock is under way
NoUnlock == [item |-> 0, address |-> ZeroAddress, step |-> "", ops |-> <<>>,
             keyHex |-> <<>>, encryptedBytes |-> NoPayload]

\* the page before its first fetch of the gallery: no account, no item,
\* nothing reported
NoGallery == [address |-> ZeroAddress,
              items |-> [i \in 0 .. MaxImages |-> GalleryItem(FALSE, FALSE)],
              unlock |-> NoUnlock,
              alert |-> ""]

\* a user of the blob store that has stored and fetched nothing
NoBlobs == [buffer |-> NoPayload, receipts |-> <<>>,
            fetched |-> [cid |-> "", status |-> "none", payload |-> NoPayload]]

\* no call of the two functions has been made
NoCrypto == [op |-> "none", plain |-> <<>>, sealedWith |-> <<>>, sealed |-> <<>>,
             keyBigInt |-> <<>>, unsealed |-> FALSE,
             payload |-> <<>>, keyHex |-> <<>>, out |-> Returned(<<>>, <<>>)]

----------------------------------------------------------------------------
(* The FHE access-control list *)

\* faulty variants of FHE.allow: one grants nothing, one replaces the list
FHEallowNoop(a, handle, account) == a
FHEallowOverwrite(a, handle, account) == [a EXCEPT ![handle] = {account}]
\* faulty variant: allowing an account that is allowed already removes it
FHEallowToggle(a, handle, account) ==
    [a EXCEPT ![handle] = IF account \in @ THEN @ \ {account} ELSE @ \cup {account}]

FHEallow(a, handle, account) == [a EXCEPT ![handle] = @ \cup {account}]

\* faulty variant: the contract itself is left off the list
FHEallowThisNoop(a, handle) == a

FHEallowThis(a, handle) == FHEallow(a, handle, Gallery)

----------------------------------------------------------------------------
(* Initial state: a freshly deployed contract *)

Init ==
    /\ nextImageId = 0
    /\ images = [i \in ImageIds |-> ZeroImage]
    /\ purchased = [i \in ImageIds |-> [a \in Accounts |-> FALSE]]
    /\ cleartext = [h \in Handles |-> 0]
    /\ acl = [h \in Handles |-> {}]
    /\ balance = [a \in Addr \cup {Gallery} |-> IF a = Gallery THEN 0 ELSE InitBalance]
    /\ events = <<>>
    /\ grants = {}
    /\ blockTimestamp = 1
    /\ pre = snapshot
    /\ lastCall = NoCall
    /\ lastResult = Ok
    /\ mempool = <<>>
    /\ pseudoStorage = [c \in Cids |-> NoPayload]
    /\ crypto = NoCrypto
    /\ blobs = NoBlobs
    /\ frame = <<>>
    /\ inflight = NoFlight
    /\ gallery = NoGallery
    /\ page = NoPage

----------------------------------------------------------------------------
(* listEncryptedImage *)

\* faulty variant: the hash is not checked
listEncryptedImageRevertNone(ipfsHash) == "ok"

\* require(bytes(ipfsHash).length > 0, "Invalid hash")
listEncryptedImageRevert(ipfsHash) ==
    IF ipfsHash = "" THEN "Invalid hash" ELSE "ok"

\* faulty variant: the counter is not advanced once an id has been given out
allocateImageIdAgain(next) == IF next = 0 THEN 1 ELSE next

\* ++_nextImageId
allocateImageId(next) == next + 1

\* faulty variant: storing an item stamps the items stored before it with
\* the time of the new one
storeImageRestamp(imgs, imageId, image) ==
    [i \in DOMAIN imgs |->
        IF i = imageId THEN image
        ELSE IF imgs[i].creator # ZeroAddress
             THEN [imgs[i] EXCEPT !.createdAt = image.createdAt]
        ELSE imgs[i]]

\* _images[imageId] = EncryptedImage({...})
storeImage(imgs, imageId, image) == [imgs EXCEPT ![imageId] = image]

\* The caller submits the sealed form of `secret` with a valid input proof;
\* FHE.fromExternal turns it into a handle that no earlier listing holds.
listEncryptedImage(sender, ipfsHash, secret) ==
    LET err == listEncryptedImageRevert(ipfsHash)
        imageId == allocateImageId(nextImageId)
        storedKey == nextImageId + 1
        image == [creator |-> sender, ipfsHash |-> ipfsHash,
                  encryptedKey |-> storedKey, createdAt |-> blockTimestamp]
    IN  /\ lastCall = NoCall
        /\ pre' = snapshot
        /\ lastCall' = Call("listEncryptedImage", sender, 0, 0, ZeroAddress, ipfsHash, secret, TRUE)
        /\ IF err # "ok"
           THEN /\ lastResult' = Revert(err)
                /\ UNCHANGED <<chain, blockTimestamp>>
           ELSE /\ nextImageId < MaxImages
                /\ blockTimestamp <= MaxTxs
                /\ nextImageId' = imageId
                /\ images' = storeImage(images, imageId, image)
                /\ cleartext' = [cleartext EXCEPT ![storedKey] = secret]
                /\ acl' = FHEallow(FHEallowThis(acl, storedKey), storedKey, sender)
                /\ events' = Append(events, ImageListed(imageId, sender, ipfsHash))
                /\ lastResult' = Result("ok", imageId, FALSE, ZeroImage)
                /\ blockTimestamp' = blockTimestamp + 1
                /\ UNCHANGED <<purchased, balance, grants>>

----------------------------------------------------------------------------
(* purchaseImage *)

\* faulty variants of the checks: no double-purchase guard, over-payment
\* accepted, no creator guard
purchaseImageRevertNoDup(image, sender, already, value) ==
    IF image.creator = ZeroAddress THEN "Image missing"
    ELSE IF sender = image.creator THEN "Creator restricted"
    ELSE IF value # ACCESS_PRICE THEN "Incorrect price"
    ELSE "ok"
purchaseImageRevertAtLeast(image, sender, already, value) ==
    IF image.creator = ZeroAddress THEN "Image missing"
    ELSE IF sender = image.creator THEN "Creator restricted"
    ELSE IF already THEN "Already purchased"
    ELSE IF value < ACCESS_PRICE THEN "Incorrect price"
    ELSE "ok"
purchaseImageRevertNoSelf(image, sender, already, value) ==
    IF image.creator = ZeroAddress THEN "Image missing"
    ELSE IF already THEN "Already purchased"
    ELSE IF value # ACCESS_PRICE THEN "Incorrect price"
    ELSE "ok"
\* variant that checks the payment before the record
purchaseImageRevertPriceFirst(image, sender, already, value) ==
    IF image.creator = ZeroAddress THEN "Image missing"
    ELSE IF sender = image.creator THEN "Creator restricted"
    ELSE IF value # ACCESS_PRICE THEN "Incorrect price"
    ELSE IF already THEN "Already purchased"
    ELSE "ok"

\* the four require statements at the head of purchaseImage, in code order
purchaseImageRevert(image, sender, already, value) ==
    IF image.creator = ZeroAddress THEN "Image missing"
    ELSE IF sender = image.creator THEN "Creator restricted"
    ELSE IF already THEN "Already purchased"
    ELSE IF value # ACCESS_PRICE THEN "Incorrect price"
    ELSE "ok"

\* faulty variant: the record is not written, as if the check and the update
\* were not one step
recordPurchaseLost(purch, imageId, sender) == purch
\* faulty variant: the record is written for every account
recordPurchaseEveryone(purch, imageId, sender) ==
    [purch EXCEPT ![imageId] = [a \in Accounts |-> TRUE]]
\* faulty variant: the record is written for every item
recordPurchaseAllItems(purch, imageId, sender) ==
    [j \in DOMAIN purch |-> [purch[j] EXCEPT ![sender] = TRUE]]

\* _hasPurchased[imageId][msg.sender] = true
recordPurchase(purch, imageId, sender) == [purch EXCEPT ![imageId][sender] = TRUE]

\* faulty variant: the grant that comes with a purchase is not announced
purchaseImageEmitsNoGrant(imageId, buyer, pricePaid) ==
    <<ImagePurchased(imageId, buyer, pricePaid)>>

\* faulty variant: the grant is announced before the purchase
purchaseImageEmitsSwapped(imageId, buyer, pricePaid) ==
    <<AccessGranted(imageId, buyer), ImagePurchased(imageId, buyer, pricePaid)>>

\* emit ImagePurchased(imageId, msg.sender, msg.value);
\* emit AccessGranted(imageId, msg.sender)
purchaseImageEmits(imageId, buyer, pricePaid) ==
    <<ImagePurchased(imageId, buyer, pricePaid), AccessGranted(imageId, buyer)>>

\* msg.value moves from the caller to the contract when the call starts
receiveValue(bal, sender, value) ==
    [bal EXCEPT ![sender] = @ - value, ![Gallery] = @ + value]

\* faulty variant: the contract keeps a part of the payment
payoutSkim(bal, to, value, sent) ==
    IF sent THEN [bal EXCEPT ![Gallery] = @ - (value - 1), ![to] = @ + (value - 1)] ELSE bal

\* image.creator.call{value: msg.value}(""): the value moves only if the
\* recipient accepts it
payout(bal, to, value, sent) ==
    IF sent THEN [bal EXCEPT ![Gallery] = @ - value, ![to] = @ + value] ELSE bal

\* faulty variant: the result of the call is not checked
payoutRevertIgnored(sent) == "ok"

\* require(sent, "Payout failed")
payoutRevert(sent) == IF sent THEN "ok" ELSE "Payout failed"

\* `sent` is the outcome of the call to the creator: it exists only when the
\* four checks have passed and the payout is attempted.
purchaseImage(sender, imageId, value) ==
    LET image == images[imageId]
        err1 == purchaseImageRevert(image, sender, purchased[imageId][sender], value)
    IN  /\ lastCall = NoCall
        /\ balance[sender] >= value
        /\ pre' = snapshot
        /\ IF err1 # "ok"
           THEN /\ lastCall' = Call("purchaseImage", sender, imageId, value, ZeroAddress, "", 0, TRUE)
                /\ lastResult' = Revert(err1)
                /\ UNCHANGED <<chain, blockTimestamp>>
           ELSE \E sent \in BOOLEAN :
                LET bal0 == receiveValue(balance, sender, value)
                    purchased1 == recordPurchase(purchased, imageId, sender)
                    bal1 == payout(bal0, image.creator, value, sent)
                    err2 == payoutRevert(sent)
                    acl1 == FHEallow(acl, image.encryptedKey, sender)
                    events1 == events \o purchaseImageEmits(imageId, sender, value)
                IN  /\ lastCall' = Call("purchaseImage", sender, imageId, value, ZeroAddress, "", 0, sent)
                    /\ IF err2 # "ok"
                       THEN /\ lastResult' = Revert(err2)
                            /\ UNCHANGED <<chain, blockTimestamp>>
                       ELSE /\ blockTimestamp <= MaxTxs
                            /\ purchased' = purchased1
                            /\ balance' = bal1
                            /\ acl' = acl1
                            /\ events' = events1
                            /\ lastResult' = Ok
                            /\ blockTimestamp' = blockTimestamp + 1
                            /\ UNCHANGED <<nextImageId, images, cleartext, grants>>

----------------------------------------------------------------------------
(* grantAccess *)

\* faulty variant: anyone may grant
grantAccessRevertAnyone(image, sender, account) ==
    IF account = ZeroAddress THEN "Invalid account"
    ELSE IF image.creator = ZeroAddress THEN "Image missing"
    ELSE "ok"

\* faulty variant: an account may grant access to itself
grantAccessRevertSelf(image, sender, account) ==
    IF account = ZeroAddress THEN "Invalid account"
    ELSE IF image.creator = ZeroAddress THEN "Image missing"
    ELSE IF image.creator # sender /\ sender # account THEN "Not creator"
    ELSE "ok"

\* the three require statements of grantAccess, in code order
grantAccessRevert(image, sender, account) ==
    IF account = ZeroAddress THEN "Invalid account"
    ELSE IF image.creator = ZeroAddress THEN "Image missing"
    ELSE IF image.creator # sender THEN "Not creator"
    ELSE "ok"

grantAccess(sender, imageId, account) ==
    LET image == images[imageId]
        err == grantAccessRevert(image, sender, account)
    IN  /\ lastCall = NoCall
        /\ pre' = snapshot
        /\ lastCall' = Call("grantAccess", sender, imageId, 0, account, "", 0, TRUE)
        /\ IF err # "ok"
           THEN /\ lastResult' = Revert(err)
                /\ UNCHANGED <<chain, blockTimestamp>>
           ELSE /\ blockTimestamp <= MaxTxs
                /\ acl' = FHEallow(acl, image.encryptedKey, account)
                /\ events' = Append(events, AccessGranted(imageId, account))
                /\ grants' = grants \cup {[imageId |-> imageId, account |-> account, by |-> sender]}
                /\ lastResult' = Ok
                /\ blockTimestamp' = blockTimestamp + 1
                /\ UNCHANGED <<nextImageId, images, purchased, cleartext, balance>>

----------------------------------------------------------------------------
(* Views.  Each is given the storage it reads, so that it can be evaluated *)
(* on the current state and on the state a transaction started from.      *)

\* faulty variant: every id is taken for the id of an item
imageMissingNever(imgs, imageId) == FALSE

\* image.creator != address(0) fails: no item was stored under the id
imageMissing(imgs, imageId) == imgs[imageId].creator = ZeroAddress

getImageAt(imgs, imageId) ==
    IF imageMissing(imgs, imageId) THEN Revert("Image missing")
    ELSE Result("ok", ACCESS_PRICE, FALSE, imgs[imageId])

getTotalImagesAt(next) == next

hasPurchasedAt(imgs, purch, imageId, account) ==
    IF imageMissing(imgs, imageId) THEN Revert("Image missing")
    ELSE Result("ok", 0, account = imgs[imageId].creator \/ purch[imageId][account],
                ZeroImage)

getImage(imageId) == getImageAt(images, imageId)
getTotalImages == getTotalImagesAt(nextImageId)
hasPurchased(imageId, account) == hasPurchasedAt(images, purchased, imageId, account)

----------------------------------------------------------------------------
(* Key release: the user takes the item's handle from getImage and asks the *)
(* gateway to decrypt it for them.  The gateway decrypts a handle for a     *)
(* user only when both the user and the contract named in the request are   *)
(* allowed on the handle.                                                   *)

userDecryptAllowed(a, handle, user) == user \in a[handle] /\ Gallery \in a[handle]

userDecryptAt(imgs, a, clear, user, imageId) ==
    IF imageMissing(imgs, imageId) THEN Revert("Image missing")
    ELSE IF ~userDecryptAllowed(a, imgs[imageId].encryptedKey, user)
         THEN Revert("Not authorized")
    ELSE Result("ok", clear[imgs[imageId].encryptedKey], FALSE, ZeroImage)

userDecrypt(user, imageId) == userDecryptAt(images, acl, cleartext, user, imageId)

----------------------------------------------------------------------------
(* The caller has waited for the transaction and taken its result *)

txWait ==
    /\ lastCall # NoCall
    /\ lastCall' = NoCall
    /\ lastResult' = Ok
    /\ pre' = snapshot
    /\ UNCHANGED <<chain, blockTimestamp>>

----------------------------------------------------------------------------

\* Every account calls the contract directly, one transaction after the other
Next ==
    \/ \E s \in Addr, h \in IpfsHashes, k \in {Secrets[nextImageId + 1]} :
           listEncryptedImage(s, h, k) /\ UNCHANGED client
    \/ \E s \in Addr, i \in ImageIds, v \in Payments :
           purchaseImage(s, i, v) /\ UNCHANGED client
    \/ \E s \in Addr, i \in ImageIds, a \in Accounts :
           grantAccess(s, i, a) /\ UNCHANGED client
    \/ txWait /\ UNCHANGED client

Spec == Init /\ [][Next]_vars

----------------------------------------------------------------------------
(* Purchases submitted concurrently.  The gallery page offers the purchase  *)
(* of an item it has fetched to an account it has seen without access, and  *)
(* sends purchaseImage with the price read from the contract.  Several      *)
(* pages (of one account or of several) do so before any of their          *)
(* transactions is included; the chain then includes them one at a time,   *)
(* in any order.                                                            *)

\* a submitted purchase; `at` is its rank among the included ones (0 while
\* it is pending)
Pending(sender, imageId, value) ==
    [sender |-> sender, imageId |-> imageId, value |-> value,
     status |-> "pending", sent |-> TRUE, at |-> 0]

Included == {k \in DOMAIN mempool : mempool[k].status # "pending"}

\* the page publishes an item only once its content has been uploaded and
\* it holds the content's hash
handlePublish(sender, ipfsHash, secret) ==
    /\ ipfsHash # ""
    /\ listEncryptedImage(sender, ipfsHash, secret)

handlePurchase(sender, imageId) ==
    LET hasAccess == hasPurchased(imageId, sender)
    IN  /\ Len(mempool) < MaxPending
        /\ Included = {}
        /\ hasAccess.status = "ok" /\ ~hasAccess.flag
        /\ mempool' = Append(mempool, Pending(sender, imageId, ACCESS_PRICE))
        /\ UNCHANGED <<chain, blockTimestamp, pre, lastCall, lastResult, pseudoStorage, page, aside>>

\* the chain includes a pending purchase and its sender gets the receipt
includePurchase(k) ==
    /\ mempool[k].status = "pending"
    /\ purchaseImage(mempool[k].sender, mempool[k].imageId, mempool[k].value)
    /\ mempool' = [mempool EXCEPT ![k].status = lastResult'.status,
                                  ![k].sent = lastCall'.sent,
                                  ![k].at = Cardinality(Included) + 1]
    /\ UNCHANGED <<pseudoStorage, page, aside>>

RaceNext ==
    \/ \E s \in Addr, h \in IpfsHashes, k \in {Secrets[nextImageId + 1]} :
           handlePublish(s, h, k) /\ UNCHANGED client
    \/ \E s \in Addr, i \in ImageIds : handlePurchase(s, i)
    \/ \E k \in DOMAIN mempool : includePurchase(k)
    \/ txWait /\ UNCHANGED client

RaceSpec == Init /\ [][RaceNext]_vars

----------------------------------------------------------------------------
(* Publishing through the gallery page: the user selects a file, the page  *)
(* generates a wallet and encrypts the file under its private key, uploads *)
(* the payload to the blob store, and lists the item with the content id   *)
(* and the sealed key.  The page offers no grant of access; purchases are  *)
(* made at the price read from the contract.                               *)

handleFileChange(file) ==
    /\ page' = [NoPage EXCEPT !.selectedFile = file]
    /\ UNCHANGED <<chain, blockTimestamp, pre, lastCall, lastResult, mempool, pseudoStorage, aside>>

handleEncrypt(key, iv) ==
    /\ page.selectedFile # ""
    /\ page' = [page EXCEPT !.prepared = TRUE,
                            !.keyBigInt = key,
                            !.payload = encryptContent(page.selectedFile, key, iv)]
    /\ UNCHANGED <<chain, blockTimestamp, pre, lastCall, lastResult, mempool, pseudoStorage, aside>>

\* faulty variant: any content id, taken or not
createPseudoCidAny == Cids

\* a content id that the store does not hold yet
createPseudoCid == {c \in Cids : pseudoStorage[c] = NoPayload}

uploadToPseudoIpfs(cid, payload) == [pseudoStorage EXCEPT ![cid] = payload]

handleUpload(cid) ==
    /\ page.prepared
    /\ cid \in createPseudoCid
    /\ pseudoStorage' = uploadToPseudoIpfs(cid, page.payload)
    /\ page' = [page EXCEPT !.ipfsHash = cid]
    /\ UNCHANGED <<chain, blockTimestamp, pre, lastCall, lastResult, mempool, aside>>

\* the page publishes what it has prepared, and resets once the listing has
\* succeeded
publishPrepared(sender) ==
    /\ page.prepared
    /\ handlePublish(sender, page.ipfsHash, page.keyBigInt)
    /\ page' = IF lastResult'.status = "ok" THEN NoPage ELSE page
    /\ UNCHANGED <<mempool, pseudoStorage, aside>>

PublishNext ==
    \/ \E f \in Files : handleFileChange(f)
    \/ \E k \in WalletKeys, iv \in Ivs : handleEncrypt(k, iv)
    \/ \E c \in Cids : handleUpload(c)
    \/ \E s \in Addr : publishPrepared(s)
    \/ \E s \in Addr, i \in ImageIds : purchaseImage(s, i, ACCESS_PRICE) /\ UNCHANGED client
    \/ txWait /\ UNCHANGED client

PublishSpec == Init /\ [][PublishNext]_vars

----------------------------------------------------------------------------
(* The two functions of utils/crypto.ts: encryptContent is called with     *)
(* every content, key and initialisation vector, and decryptContent then   *)
(* with every key and every prefix of the payload that encryptContent has  *)
(* returned.                                                               *)

callEncryptContent(plain, keyHex, iv) ==
    /\ crypto.op = "none"
    /\ crypto' = [op |-> "encryptContent", plain |-> plain, sealedWith |-> keyHex,
                  sealed |-> encryptContentBytes(plain, keyHex, iv).bytes,
                  keyBigInt |-> IF startsWith0x(keyHex) THEN BigInt(keyHex) ELSE <<>>,
                  unsealed |-> FALSE,
                  payload |-> <<>>, keyHex |-> keyHex,
                  out |-> encryptContentBytes(plain, keyHex, iv)]
    /\ UNCHANGED <<chain, blockTimestamp, pre, lastCall, lastResult, mempool,
                   pseudoStorage, page, blobs, frame, inflight, gallery>>

callDecryptContent(n, keyHex) ==
    /\ crypto.op = "encryptContent"
    /\ crypto.out.status = "ok"
    /\ n \in 0 .. Len(crypto.sealed)
    /\ LET payload == SubSeq(crypto.sealed, 1, n)
       IN  crypto' = [crypto EXCEPT !.op = "decryptContent", !.payload = payload,
                                    !.keyHex = keyHex,
                                    !.out = decryptContent(payload, keyHex)]
    /\ UNCHANGED <<chain, blockTimestamp, pre, lastCall, lastResult, mempool,
                   pseudoStorage, page, blobs, frame, inflight, gallery>>

\* the buyer decrypts with the key made of the unsealed integer
callDecryptUnsealed(n) ==
    /\ crypto.op = "encryptContent"
    /\ crypto.out.status = "ok"
    /\ crypto.sealedWith \in PrivateKeys
    /\ n \in 0 .. Len(crypto.sealed)
    /\ LET payload == SubSeq(crypto.sealed, 1, n)
           keyHex == unsealedKeyHex(crypto.keyBigInt)
       IN  crypto' = [crypto EXCEPT !.op = "decryptContent", !.payload = payload,
                                    !.keyHex = keyHex, !.unsealed = TRUE,
                                    !.out = decryptContent(payload, keyHex)]
    /\ UNCHANGED <<chain, blockTimestamp, pre, lastCall, lastResult, mempool,
                   pseudoStorage, page, blobs, frame, inflight, gallery>>

CryptoNext ==
    \/ \E p \in Plains, k \in KeyHexes \cup PrivateKeys, iv \in RandomIvs :
           callEncryptContent(p, k, iv)
    \/ \E n \in 0 .. (AES_IV_LENGTH + MaxPlain + AES_TAG_LENGTH) : callDecryptUnsealed(n)
    \/ \E n \in 0 .. (AES_IV_LENGTH + MaxPlain + AES_TAG_LENGTH), k \in KeyHexes :
           callDecryptContent(n, k)

CryptoSpec == Init /\ [][CryptoNext]_vars

----------------------------------------------------------------------------
(* The blob store used on its own: a caller fills its buffer, stores it,   *)
(* changes the buffer, stores again and fetches, in any order.  The store  *)
(* keeps a copy of the buffer it is given and fetch returns a copy of what *)
(* it keeps, so an entry is the value the buffer had when it was stored.   *)

\* the payloads a caller may put in its buffer
Payloads == {encryptContent(f, k, iv) : f \in Files, k \in WalletKeys, iv \in Ivs}

\* content ids asked for: the store's and one it never gave out
AskedCids == Cids \cup {"pseudo-0"}

fetchFromIpfs(cid) ==
    IF cid \notin Cids \/ pseudoStorage[cid] = NoPayload
    THEN [cid |-> cid, status |-> "Content is not available in pseudo IPFS storage",
          payload |-> NoPayload]
    ELSE [cid |-> cid, status |-> "ok", payload |-> pseudoStorage[cid]]

\* the caller writes into its own buffer
fillBuffer(payload) ==
    /\ blobs.buffer # payload
    /\ blobs' = [blobs EXCEPT !.buffer = payload]
    /\ UNCHANGED <<chain, blockTimestamp, pre, lastCall, lastResult, mempool,
                   pseudoStorage, page, crypto, frame, inflight, gallery>>

storeBuffer(cid) ==
    /\ blobs.buffer # NoPayload
    /\ cid \in createPseudoCid
    /\ pseudoStorage' = uploadToPseudoIpfs(cid, blobs.buffer)
    /\ blobs' = [blobs EXCEPT !.receipts =
                     Append(@, [cid |-> cid, payload |-> blobs.buffer])]
    /\ UNCHANGED <<chain, blockTimestamp, pre, lastCall, lastResult, mempool,
                   page, crypto, frame, inflight, gallery>>

fetchBlob(cid) ==
    /\ blobs' = [blobs EXCEPT !.fetched = fetchFromIpfs(cid)]
    /\ UNCHANGED <<chain, blockTimestamp, pre, lastCall, lastResult, mempool,
                   pseudoStorage, page, crypto, frame, inflight, gallery>>

StoreNext ==
    \/ \E p \in Payloads : fillBuffer(p)
    \/ \E c \in Cids : storeBuffer(c)
    \/ \E c \in AskedCids : fetchBlob(c)

StoreSpec == Init /\ [][StoreNext]_vars

----------------------------------------------------------------------------
(* Purchases whose payout runs code.  image.creator.call hands control to  *)
(* the creator's code before purchaseImage has finished: the record and    *)
(* the transfer are made, FHE.allow and the events are still to come.      *)
(* While the purchase waits, that code, and whatever it calls, may call    *)
(* the contract as any account.  When it returns, the purchase goes on; if *)
(* it reverts, everything done since the purchase began is undone.  One    *)
(* purchase waits at a time: the payouts of the purchases made meanwhile   *)
(* are accepted or refused without further calls.                          *)

\* purchaseImage up to the call of line 57
payoutBegin(sender, imageId, value) ==
    LET image == images[imageId]
    IN  /\ lastCall = NoCall
        /\ frame = <<>>
        /\ balance[sender] >= value
        /\ purchaseImageRevert(image, sender, purchased[imageId][sender], value) = "ok"
        /\ purchased' = recordPurchase(purchased, imageId, sender)
        /\ balance' = payout(receiveValue(balance, sender, value), image.creator, value, TRUE)
        /\ frame' = Append(frame, [sender |-> sender, imageId |-> imageId,
                                   value |-> value, saved |-> snapshot])
        /\ UNCHANGED <<nextImageId, images, cleartext, acl, events, grants,
                       blockTimestamp, pre, lastCall, lastResult>>

\* purchaseImage from the return of that call on
payoutEnd(sent) ==
    LET f == frame[Len(frame)]
        image == images[f.imageId]
    IN  /\ frame # <<>>
        /\ lastCall = NoCall
        /\ frame' = SubSeq(frame, 1, Len(frame) - 1)
        /\ pre' = f.saved
        /\ lastCall' = Call("purchaseImage", f.sender, f.imageId, f.value,
                            ZeroAddress, "", 0, sent)
        /\ IF payoutRevert(sent) # "ok"
           THEN /\ lastResult' = Revert(payoutRevert(sent))
                /\ nextImageId' = f.saved.nextImageId
                /\ images' = f.saved.images
                /\ purchased' = f.saved.purchased
                /\ cleartext' = f.saved.cleartext
                /\ acl' = f.saved.acl
                /\ balance' = f.saved.balance
                /\ events' = f.saved.events
                /\ grants' = f.saved.grants
                /\ blockTimestamp' = f.saved.blockTimestamp
           ELSE /\ blockTimestamp <= MaxTxs
                /\ acl' = FHEallow(acl, image.encryptedKey, f.sender)
                /\ events' = events \o purchaseImageEmits(f.imageId, f.sender, f.value)
                /\ lastResult' = Ok
                /\ blockTimestamp' = blockTimestamp + 1
                /\ UNCHANGED <<nextImageId, images, purchased, cleartext, balance, grants>>

\* a call made by the code that the payout runs
reentrant(call) == frame # <<>> /\ call /\ UNCHANGED client

ReentryNext ==
    \/ \E s \in Addr, h \in IpfsHashes, k \in {Secrets[nextImageId + 1]} :
           handlePublish(s, h, k) /\ UNCHANGED client
    \/ \E s \in Addr, i \in 0 .. nextImageId :
           reentrant(purchaseImage(s, i, ACCESS_PRICE))
    \/ \E s \in Addr, i \in 0 .. nextImageId, a \in Addr :
           reentrant(grantAccess(s, i, a))
    \/ \E s \in Addr, i \in 0 .. nextImageId :
           payoutBegin(s, i, ACCESS_PRICE) /\ UNCHANGED <<mempool, pseudoStorage, page, crypto, blobs, inflight, gallery>>
    \/ \E sent \in BOOLEAN :
           payoutEnd(sent) /\ UNCHANGED <<mempool, pseudoStorage, page, crypto, blobs, inflight, gallery>>
    \/ txWait /\ UNCHANGED client

ReentrySpec == Init /\ [][ReentryNext]_vars

----------------------------------------------------------------------------
(* The gallery page with its handlers in flight.  handleEncrypt reads the  *)
(* file and encrypts it while the page stays usable, and installs the      *)
(* result when it is done; handlePublish seals the key, sends the listing  *)
(* and waits for it.  Each takes the file, the prepared encryption and the *)
(* content id from the render in which it was started.  The buttons are    *)
(* disabled while their own handler runs; the file input never is.         *)
(* uploadToPseudoIpfs completes without waiting for anything, so           *)
(* handleUpload is one step.                                               *)

\* handleEncrypt up to its first await
encryptBegin ==
    /\ page.selectedFile # ""
    /\ inflight.encrypting = ""
    /\ inflight' = [inflight EXCEPT !.encrypting = page.selectedFile]
    /\ UNCHANGED <<chain, blockTimestamp, pre, lastCall, lastResult, mempool,
                   pseudoStorage, page, crypto, blobs, frame, gallery>>

\* handleEncrypt from the result of encryptContent on: setPrepared
encryptEnd(key, iv) ==
    /\ inflight.encrypting # ""
    /\ page' = [page EXCEPT !.prepared = TRUE,
                            !.keyBigInt = key,
                            !.payload = encryptContent(inflight.encrypting, key, iv)]
    /\ inflight' = [inflight EXCEPT !.encrypting = ""]
    /\ UNCHANGED <<chain, blockTimestamp, pre, lastCall, lastResult, mempool,
                   pseudoStorage, crypto, blobs, frame, gallery>>

\* faulty variant: the page submits a listing before it holds a content id
publishBeginNoUpload ==
    /\ page.prepared
    /\ ~inflight.publishing
    /\ inflight' = [inflight EXCEPT !.publishing = TRUE,
                                    !.keyBigInt = page.keyBigInt,
                                    !.ipfsHash = page.ipfsHash]
    /\ UNCHANGED <<chain, blockTimestamp, pre, lastCall, lastResult, mempool,
                   pseudoStorage, page, crypto, blobs, frame, gallery>>

\* handlePublish up to its first await
publishBegin ==
    /\ page.prepared
    /\ page.ipfsHash # ""
    /\ ~inflight.publishing
    /\ inflight' = [inflight EXCEPT !.publishing = TRUE,
                                    !.keyBigInt = page.keyBigInt,
                                    !.ipfsHash = page.ipfsHash]
    /\ UNCHANGED <<chain, blockTimestamp, pre, lastCall, lastResult, mempool,
                   pseudoStorage, page, crypto, blobs, frame, gallery>>

\* the listing is mined and handlePublish resets the page
publishEnd(sender) ==
    /\ inflight.publishing
    /\ listEncryptedImage(sender, inflight.ipfsHash, inflight.keyBigInt)
    /\ lastResult'.status = "ok"
    /\ page' = NoPage
    /\ inflight' = [inflight EXCEPT !.publishing = FALSE, !.keyBigInt = 0,
                                    !.ipfsHash = ""]
    /\ UNCHANGED <<mempool, pseudoStorage, crypto, blobs, frame, gallery>>

\* the sealing, the signer or the transaction fails: handlePublish reports
\* the error and touches nothing else
publishFail ==
    /\ inflight.publishing
    /\ inflight' = [inflight EXCEPT !.publishing = FALSE, !.keyBigInt = 0,
                                    !.ipfsHash = ""]
    /\ UNCHANGED <<chain, blockTimestamp, pre, lastCall, lastResult, mempool,
                   pseudoStorage, page, crypto, blobs, frame, gallery>>

PageNext ==
    \/ \E f \in Pictures : handleFileChange(f)
    \/ encryptBegin
    \/ \E k \in WalletKeys, iv \in Ivs : encryptEnd(k, iv)
    \/ \E c \in Cids : handleUpload(c)
    \/ publishBegin
    \/ \E s \in Addr : publishEnd(s)
    \/ publishFail
    \/ txWait /\ UNCHANGED client

PageSpec == Init /\ [][PageNext]_vars

----------------------------------------------------------------------------
(* Unlocking through the gallery page.  The page of a connected account    *)
(* shows the listed items; for an item it has seen with access it offers   *)
(* handleDecrypt, which signs a request, has the gateway unseal the key,   *)
(* fetches the payload from the blob store and decrypts it.  Each of the   *)
(* four steps waits for its result, so the handler is one action per step; *)
(* the signature and the gateway may fail for reasons outside the model.   *)

\* Number.prototype.toString(16) of a natural number: no leading zeros, "0"
\* for zero
RECURSIVE toString16(_)
toString16(n) == IF n < 16 THEN <<n>> ELSE Append(toString16(n \div 16), n % 16)

\* `0x${keyBigInt.toString(16).padStart(64, '0')}`
keyHexOf(keyBigInt) == <<0, x>> \o padStart(toString16(keyBigInt), 64, 0)

\* decryptContent on a payload of the page: the key imported from keyHex
\* opens the payload if it is the key imported from the private key whose
\* number the payload was encrypted under
decryptContentPayload(payload, keyHex) ==
    LET key == importAesKey(keyHex)
    IN  IF key.status # "ok" THEN [status |-> key.status, plain |-> ""]
        ELSE IF key.bytes # importAesKey(keyHexOf(payload.body.key)).bytes
        THEN [status |-> "OperationError", plain |-> ""]
        ELSE [status |-> "ok", plain |-> payload.body.plain]

\* faulty variant: the item is left as it is when the unlock fails
catchDecryptKeepsFlag(entry) == entry
\* the catch block of handleDecrypt
catchDecrypt(entry) ==
    IF entry.shown THEN [entry EXCEPT !.decrypting = FALSE] ELSE entry

\* the end of the try block of handleDecrypt
recordDecrypted(entry, url, keyHex) ==
    IF entry.shown
    THEN [entry EXCEPT !.decrypting = FALSE,
                       !.decryptedImageUrl = url,
                       !.decryptedKeyHex = keyHex]
    ELSE entry

\* fetchGallery for the connected account: the list is made anew from the
\* contract's views
fetchGallery(address) ==
    /\ lastCall = NoCall
    /\ gallery' = [gallery EXCEPT
           !.address = address,
           !.items = [i \in 0 .. MaxImages |->
                         IF i \in 1 .. getTotalImages
                         THEN GalleryItem(TRUE, hasPurchased(i, address).flag)
                         ELSE GalleryItem(FALSE, FALSE)]]
    /\ UNCHANGED <<chain, blockTimestamp, pre, lastCall, lastResult, mempool,
                   pseudoStorage, page, crypto, blobs, frame, inflight>>

\* an unlock ends in the catch block with the message of the error
decryptFails(msg, ops) ==
    gallery' = [gallery EXCEPT
        !.items[gallery.unlock.item] = catchDecrypt(@),
        !.unlock = [NoUnlock EXCEPT !.ops = ops],
        !.alert = msg]

decryptBegin(i) ==
    /\ lastCall = NoCall
    /\ gallery.unlock.step = ""
    /\ gallery.items[i].shown
    /\ gallery.items[i].hasAccess
    /\ ~gallery.items[i].decrypting
    /\ gallery' = [gallery EXCEPT
           !.items[i].decrypting = TRUE,
           !.unlock = [NoUnlock EXCEPT !.item = i, !.address = gallery.address,
                                       !.step = "signTypedData"],
           !.alert = ""]
    /\ UNCHANGED <<chain, blockTimestamp, pre, lastCall, lastResult, mempool,
                   pseudoStorage, page, crypto, blobs, frame, inflight>>

\* signer.signTypedData: the user signs or refuses
decryptSign(signed) ==
    LET ops == Append(gallery.unlock.ops, "signTypedData")
    IN  /\ lastCall = NoCall
        /\ gallery.unlock.step = "signTypedData"
        /\ IF signed
           THEN gallery' = [gallery EXCEPT !.unlock.step = "userDecrypt",
                                           !.unlock.ops = ops]
           ELSE decryptFails("user rejected action", ops)
        /\ UNCHANGED <<chain, blockTimestamp, pre, lastCall, lastResult, mempool,
                       pseudoStorage, page, crypto, blobs, frame, inflight>>

\* instance.userDecrypt, then the key in hexadecimal
decryptUnseal(answered) ==
    LET ops == Append(gallery.unlock.ops, "userDecrypt")
        decrypted == userDecrypt(gallery.unlock.address, gallery.unlock.item)
    IN  /\ lastCall = NoCall
        /\ gallery.unlock.step = "userDecrypt"
        /\ IF ~answered THEN decryptFails("relayer unavailable", ops)
           ELSE IF decrypted.status # "ok" THEN decryptFails(decrypted.status, ops)
           ELSE IF decrypted.num = 0 THEN decryptFails("Decryption result missing", ops)
           ELSE gallery' = [gallery EXCEPT !.unlock.step = "fetchFromIpfs",
                                           !.unlock.ops = ops,
                                           !.unlock.keyHex = keyHexOf(decrypted.num)]
        /\ UNCHANGED <<chain, blockTimestamp, pre, lastCall, lastResult, mempool,
                       pseudoStorage, page, crypto, blobs, frame, inflight>>

\* fetchFromIpfs(item.ipfsHash)
decryptFetch ==
    LET ops == Append(gallery.unlock.ops, "fetchFromIpfs")
        fetched == fetchFromIpfs(images[gallery.unlock.item].ipfsHash)
    IN  /\ lastCall = NoCall
        /\ gallery.unlock.step = "fetchFromIpfs"
        /\ IF fetched.status # "ok" THEN decryptFails(fetched.status, ops)
           ELSE gallery' = [gallery EXCEPT !.unlock.step = "decryptContent",
                                           !.unlock.ops = ops,
                                           !.unlock.encryptedBytes = fetched.payload]
        /\ UNCHANGED <<chain, blockTimestamp, pre, lastCall, lastResult, mempool,
                       pseudoStorage, page, crypto, blobs, frame, inflight>>

\* decryptContent(encryptedBytes, keyHex), and the picture is shown
decryptEnd ==
    LET ops == Append(gallery.unlock.ops, "decryptContent")
        decrypted == decryptContentPayload(gallery.unlock.encryptedBytes,
                                           gallery.unlock.keyHex)
    IN  /\ lastCall = NoCall
        /\ gallery.unlock.step = "decryptContent"
        /\ IF decrypted.status # "ok" THEN decryptFails(decrypted.status, ops)
           ELSE gallery' = [gallery EXCEPT
                    !.items[gallery.unlock.item] =
                        recordDecrypted(@, decrypted.plain, gallery.unlock.keyHex),
                    !.unlock = [NoUnlock EXCEPT !.ops = ops]]
        /\ UNCHANGED <<chain, blockTimestamp, pre, lastCall, lastResult, mempool,
                       pseudoStorage, page, crypto, blobs, frame, inflight>>

\* the page offers the purchase of an item it shows without access, at the
\* price read from the contract
purchaseShown(i) ==
    /\ gallery.items[i].shown
    /\ ~gallery.items[i].hasAccess
    /\ purchaseImage(gallery.address, i, ACCESS_PRICE)
    /\ UNCHANGED client

\* the first item of the gallery may have been listed from a browser whose
\* blob store this page does not see
listedElsewhere(sender) ==
    /\ nextImageId = 0
    /\ handlePublish(sender, "ipfs://sample-hash", Secrets[1])
    /\ UNCHANGED client

\* the accounts that connect to the page, and those of them that publish
Visitors == {"alice", "bob"}
Publishers == {"alice"}

UnlockNext ==
    \/ \E f \in Files : handleFileChange(f)
    \/ \E k \in WalletKeys, iv \in Ivs : handleEncrypt(k, iv)
    \/ \E c \in Cids : handleUpload(c)
    \/ \E s \in Publishers : publishPrepared(s)
    \/ \E s \in Publishers : listedElsewhere(s)
    \/ \E i \in ImageIds : purchaseShown(i)
    \/ txWait /\ UNCHANGED client
    \/ \E a \in Visitors : fetchGallery(a)
    \/ \E i \in ImageIds : decryptBegin(i)
    \/ \E signed \in BOOLEAN : decryptSign(signed)
    \/ \E answered \in BOOLEAN : decryptUnseal(answered)
    \/ decryptFetch
    \/ decryptEnd

UnlockSpec == Init /\ [][UnlockNext]_vars

TypeOK ==
    /\ nextImageId \in 0 .. MaxImages
    /\ \A i \in ImageIds : images[i].creator \in Accounts
    /\ \A a \in Addr \cup {Gallery} : balance[a] >= 0
    /\ blockTimestamp <= MaxTxs + 1
    /\ Len(events) <= 2 * MaxTxs

----------------------------------------------------------------------------
(* Vocabulary of the properties.  In the state that follows a call, pre is  *)
(* the state the call started from, lastCall the call, lastResult what it   *)
(* returned.                                                                *)

IsCall(op) == lastCall.op = op
Succeeded == lastResult.status = "ok"
FailedWith(msg) == lastResult.status = msg
NothingChanged == snapshot = pre
Listed(i) == ~imageMissing(images, i)
ListedBefore(i) == ~imageMissing(pre.images, i)
CreatorOf(i) == images[i].creator
CreatorBefore(i) == pre.images[i].creator
GrantedByCreator(i, p) ==
    \E g \in grants : g.imageId = i /\ g.account = p /\ g.by = CreatorOf(i)
CanUnseal(p, i) == userDecrypt(p, i).status = "ok"
CouldUnseal(p, i) ==
    userDecryptAt(pre.images, pre.acl, pre.cleartext, p, i).status = "ok"
IsAuthorized(i, p) ==
    LET r == hasPurchased(i, p) IN r.status = "ok" /\ r.flag
WasAuthorized(i, p) ==
    LET r == hasPurchasedAt(pre.images, pre.purchased, i, p) IN r.status = "ok" /\ r.flag

----------------------------------------------------------------------------
C2_DoublePurchaseRejected ==
    (/\ IsCall("purchaseImage")
     /\ lastCall.value = ACCESS_PRICE
     /\ pre.purchased[lastCall.imageId][lastCall.sender])
    => /\ FailedWith("Already purchased")
       /\ purchased = pre.purchased
       /\ acl = pre.acl
       /\ balance = pre.balance
       /\ events = pre.events
       /\ NothingChanged

C2_Witness ==
    /\ IsCall("purchaseImage")
    /\ lastCall.value = ACCESS_PRICE
    /\ pre.purchased[lastCall.imageId][lastCall.sender]
    /\ FailedWith("Already purchased")

\* C3: when the creator rejects the transfer of the payment, the purchase
\* fails as a whole: no purchase record, no new permission, no event, and
\* the buyer keeps the payment.
C3_PayoutFailureRollsBack ==
    (IsCall("purchaseImage") /\ ~lastCall.sent)
    => /\ FailedWith("Payout failed")
       /\ ~purchased[lastCall.imageId][lastCall.sender]
       /\ acl = pre.acl
       /\ events = pre.events
       /\ balance = pre.balance
       /\ NothingChanged

C3_Witness ==
    /\ IsCall("purchaseImage")
    /\ ~lastCall.sent
    /\ FailedWith("Payout failed")
    /\ lastCall.sender \notin acl[images[lastCall.imageId].encryptedKey]

\* The case of C4: a listed item, a principal that is not its creator and has
\* not purchased it, and a payment of exactly the fixed price.
C4_Case ==
    /\ IsCall("purchaseImage")
    /\ ListedBefore(lastCall.imageId)
    /\ lastCall.sender # CreatorBefore(lastCall.imageId)
    /\ ~pre.purchased[lastCall.imageId][lastCall.sender]
    /\ lastCall.value = ACCESS_PRICE

C4_Unlocked ==
    /\ Succeeded
    /\ purchased[lastCall.imageId][lastCall.sender]
    /\ IsAuthorized(lastCall.imageId, lastCall.sender)
    /\ userDecrypt(lastCall.sender, lastCall.imageId).status = "ok"
    /\ userDecrypt(lastCall.sender, lastCall.imageId).num = Secrets[lastCall.imageId]

\* C4 as stated: in that case the purchase always succeeds, and afterwards the
\* buyer is authorized and unseals exactly the secret sealed at listing.
C4_PurchaseAlwaysSucceeds == C4_Case => C4_Unlocked

\* C4 as amended: in that case the purchase succeeds unless the creator
\* rejects the transfer of the payment (then it fails with "Payout failed"
\* and changes nothing); after a successful purchase the buyer is authorized
\* and unseals exactly the secret sealed at listing.
C4_PurchaseUnlocksUnlessPayoutRejected ==
    C4_Case => IF lastCall.sent THEN C4_Unlocked
               ELSE FailedWith("Payout failed") /\ NothingChanged

C4_Witness == C4_Case /\ lastCall.sent /\ C4_Unlocked /\ lastCall.imageId = 2

\* C5: a successful purchase raises the creator's balance by exactly the
\* fixed price, and the contract's own balance is the same after every
\* operation as before it.
C5_FullPaymentToCreator ==
    /\ balance[Gallery] = pre.balance[Gallery]
    /\ (IsCall("purchaseImage") /\ Succeeded)
       => LET creator == CreatorBefore(lastCall.imageId)
          IN  /\ balance[creator] = pre.balance[creator] + ACCESS_PRICE
              /\ balance[lastCall.sender] = pre.balance[lastCall.sender] - ACCESS_PRICE

C5_Witness ==
    /\ IsCall("purchaseImage") /\ Succeeded
    /\ balance[CreatorBefore(lastCall.imageId)] = InitBalance + ACCESS_PRICE

\* C6: isAuthorized (hasPurchased) is true exactly for the principals the
\* gateway releases the key to - the creator, the purchasers and the
\* principals the creator granted; in particular it is true for a principal
\* right after the creator's grantAccess for it.
C6_IsAuthorizedAgreesWithRelease ==
    /\ \A i \in ImageIds, p \in Addr :
           Listed(i) => (IsAuthorized(i, p) <=> CanUnseal(p, i))
    /\ (IsCall("grantAccess") /\ Succeeded)
       => IsAuthorized(lastCall.imageId, lastCall.account)

\* C7: permissions only grow: an operation either changes nothing at all,
\* or whoever hasPurchased reports as authorized, is on the access list of a
\* handle, or can unseal an item before it is so after it as well.
C7_PermissionMonotonic ==
    \/ NothingChanged
    \/ /\ \A i \in ImageIds, p \in Addr :
              /\ WasAuthorized(i, p) => IsAuthorized(i, p)
              /\ CouldUnseal(p, i) => CanUnseal(p, i)
       /\ \A h \in Handles : pre.acl[h] \subseteq acl[h]

C7_Witness ==
    /\ IsCall("purchaseImage") /\ Succeeded
    /\ \E i \in ImageIds, p \in Addr :
           /\ p # CreatorBefore(i)
           /\ p # lastCall.sender
           /\ CouldUnseal(p, i) /\ CanUnseal(p, i)
           /\ i = lastCall.imageId

\* C8: from the listing on, and in every later state, the creator of an item
\* is authorized for it and unseals exactly the secret sealed at listing.
C8_CreatorAuthorizedFromListing ==
    /\ \A i \in ImageIds :
           Listed(i)
           => LET released == userDecrypt(CreatorOf(i), i)
              IN  /\ IsAuthorized(i, CreatorOf(i))
                  /\ released.status = "ok"
                  /\ released.num = Secrets[i]
    /\ (IsCall("listEncryptedImage") /\ Succeeded)
       => /\ Listed(lastResult.num)
          /\ CreatorOf(lastResult.num) = lastCall.sender
          /\ userDecrypt(lastCall.sender, lastResult.num).num = lastCall.secret

C8_Witness ==
    /\ IsCall("listEncryptedImage") /\ Succeeded
    /\ lastResult.num = 2
    /\ userDecrypt(lastCall.sender, 2).num = lastCall.secret
    /\ CreatorOf(1) # lastCall.sender
    /\ userDecrypt(CreatorOf(1), 1).num = Secrets[1]

\* C9: for a listed item and a principal that is not its creator and has not
\* purchased it, a purchase with any payment other than the fixed price
\* fails with "Incorrect price" and changes nothing; a purchase succeeds only
\* with a payment of exactly the fixed price.
C9_PriceExact ==
    /\ (/\ IsCall("purchaseImage")
        /\ ListedBefore(lastCall.imageId)
        /\ lastCall.sender # CreatorBefore(lastCall.imageId)
        /\ ~pre.purchased[lastCall.imageId][lastCall.sender]
        /\ lastCall.value # ACCESS_PRICE)
       => FailedWith("Incorrect price") /\ NothingChanged
    /\ (IsCall("purchaseImage") /\ Succeeded) => lastCall.value = ACCESS_PRICE

C9_Witness ==
    /\ IsCall("purchaseImage")
    /\ lastCall.value = ACCESS_PRICE + 1
    /\ FailedWith("Incorrect price")
    /\ NothingChanged

\* C10: a purchase by the creator of the item fails with "Creator restricted"
\* whatever the payment, moves no funds and changes nothing, and the
\* creator is authorized all the same.
C10_SelfPurchaseRejected ==
    (/\ IsCall("purchaseImage")
     /\ ListedBefore(lastCall.imageId)
     /\ lastCall.sender = CreatorBefore(lastCall.imageId))
    => /\ FailedWith("Creator restricted")
       /\ balance = pre.balance
       /\ NothingChanged
       /\ ~purchased[lastCall.imageId][lastCall.sender]
       /\ IsAuthorized(lastCall.imageId, lastCall.sender)

C10_Witness ==
    /\ IsCall("purchaseImage")
    /\ ListedBefore(lastCall.imageId)
    /\ lastCall.sender = CreatorBefore(lastCall.imageId)
    /\ lastCall.value = ACCESS_PRICE
    /\ FailedWith("Creator restricted")

----------------------------------------------------------------------------
(* Purchases of one item by one account that were submitted concurrently   *)

Concurrent(k1, k2) ==
    /\ k1 # k2
    /\ mempool[k1].sender = mempool[k2].sender
    /\ mempool[k1].imageId = mempool[k2].imageId

BothIncluded(k1, k2) == k1 \in Included /\ k2 \in Included

\* no third purchase of the item by the account was included
OnlyTwo(k1, k2) ==
    \A k \in Included :
        (mempool[k].sender = mempool[k1].sender /\ mempool[k].imageId = mempool[k1].imageId)
        => k \in {k1, k2}

C11_Case(k1, k2) == Concurrent(k1, k2) /\ BothIncluded(k1, k2) /\ OnlyTwo(k1, k2)

\* C11 as stated: of two concurrently submitted purchases of one item by one
\* account, exactly one succeeds and the other fails with "Already
\* purchased", whatever the order in which they are included.
C11_ExactlyOneSucceeds ==
    \A k1, k2 \in DOMAIN mempool :
        C11_Case(k1, k2)
        => \/ mempool[k1].status = "ok" /\ mempool[k2].status = "Already purchased"
           \/ mempool[k2].status = "ok" /\ mempool[k1].status = "Already purchased"

\* C11 as amended: the two never both succeed, and once one has succeeded
\* the other fails with "Already purchased"; a purchase fails with
\* "Payout failed" exactly when the creator rejects the transfer of its
\* payment, and it leaves the purchase record as it was; when neither
\* transfer is rejected, exactly one of the two succeeds and the other fails
\* with "Already purchased".
C11_NeverBothSucceed ==
    \A k1, k2 \in DOMAIN mempool :
        C11_Case(k1, k2)
        => /\ ~(mempool[k1].status = "ok" /\ mempool[k2].status = "ok")
           /\ (mempool[k1].status = "ok" /\ mempool[k1].at < mempool[k2].at)
              => mempool[k2].status = "Already purchased"
           /\ mempool[k1].status = "Payout failed" <=> ~mempool[k1].sent
           /\ (mempool[k1].sent /\ mempool[k2].sent)
              => \/ mempool[k1].status = "ok" /\ mempool[k2].status = "Already purchased"
                 \/ mempool[k2].status = "ok" /\ mempool[k1].status = "Already purchased"
           /\ (mempool[k1].status # "ok" /\ mempool[k2].status # "ok")
              => ~purchased[mempool[k1].imageId][mempool[k1].sender]

\* the later submission is included first and succeeds, the earlier one is
\* then refused
C11_Witness ==
    \E k1, k2 \in DOMAIN mempool :
        /\ k1 < k2
        /\ C11_Case(k1, k2)
        /\ mempool[k2].status = "ok"
        /\ mempool[k1].status = "Already purchased"
        /\ IsCall("purchaseImage") /\ FailedWith("Already purchased")

----------------------------------------------------------------------------
\* The case of C12: grantAccess for a listed item by an account that is not
\* its creator.
C12_Case ==
    /\ IsCall("grantAccess")
    /\ ListedBefore(lastCall.imageId)
    /\ lastCall.sender # CreatorBefore(lastCall.imageId)

\* The accounts that a step has added to the access list of an item's handle
\* enter it by the listing of the item (its creator and the contract), by
\* their own purchase, or by a grant of the item's creator.
C12_EntersOnlyByPurchaseOrGrant ==
    \/ NothingChanged
    \/ \A i \in ImageIds, p \in Addr :
           (Listed(i) /\ p # CreatorOf(i)
            /\ p \in acl[images[i].encryptedKey]
            /\ ~(ListedBefore(i) /\ p \in pre.acl[images[i].encryptedKey]))
           => /\ Succeeded
              /\ lastCall.imageId = i
              /\ \/ IsCall("purchaseImage") /\ lastCall.sender = p
                 \/ /\ IsCall("grantAccess")
                    /\ lastCall.sender = CreatorOf(i)
                    /\ lastCall.account = p

\* C12 as stated: in that case grantAccess fails with "Not creator" and the
\* access lists stay as they were, so that a non-creator enters the
\* permission set of an item only by its own purchase or a grant of the
\* creator.
C12_NonCreatorGrantIsNotAuthorized ==
    /\ C12_Case => FailedWith("Not creator") /\ acl = pre.acl
    /\ C12_EntersOnlyByPurchaseOrGrant

\* C12 as amended: in that case grantAccess fails and changes nothing; it
\* fails with "Invalid account" when the account to grant is the zero
\* address, which is checked first, and with "Not creator" otherwise.
C12_NonCreatorGrantRejected ==
    /\ C12_Case
       => /\ FailedWith(IF lastCall.account = ZeroAddress THEN "Invalid account"
                        ELSE "Not creator")
          /\ acl = pre.acl
          /\ NothingChanged
    /\ C12_EntersOnlyByPurchaseOrGrant

\* an account that has purchased the item tries to grant access to a third
C12_Witness ==
    /\ C12_Case
    /\ purchased[lastCall.imageId][lastCall.sender]
    /\ lastCall.account \in Addr \ {lastCall.sender, CreatorBefore(lastCall.imageId)}
    /\ FailedWith("Not creator")
    /\ ~CanUnseal(lastCall.account, lastCall.imageId)

----------------------------------------------------------------------------
\* The case of C13: the creator of a listed item grants access to an account
\* that is on the access list of the item's handle already.
C13_Case ==
    /\ IsCall("grantAccess")
    /\ ListedBefore(lastCall.imageId)
    /\ lastCall.sender = CreatorBefore(lastCall.imageId)
    /\ lastCall.account \in pre.acl[pre.images[lastCall.imageId].encryptedKey]

\* C13: in that case grantAccess succeeds, and the access lists, the purchase
\* records and what hasPurchased and the gateway answer for every item and
\* account are the same after it as before it.
C13_GrantIdempotent ==
    C13_Case
    => /\ Succeeded
       /\ acl = pre.acl
       /\ purchased = pre.purchased
       /\ \A i \in ImageIds, p \in Addr :
              /\ IsAuthorized(i, p) <=> WasAuthorized(i, p)
              /\ CanUnseal(p, i) <=> CouldUnseal(p, i)

\* the creator grants access to an account that has purchased the item
C13_Witness ==
    /\ C13_Case
    /\ Succeeded
    /\ pre.purchased[lastCall.imageId][lastCall.account]
    /\ CanUnseal(lastCall.account, lastCall.imageId)

----------------------------------------------------------------------------
\* C14: the purchase record of an item and an account is false until the
\* account's own purchase of the item at the fixed price succeeds, which is
\* the only step that sets it, and no step resets it.
C14_PurchaseRecordMonotonic ==
    /\ \A i \in ImageIds, p \in Accounts :
           purchased[i][p]
           => /\ Listed(i)
              /\ \E n \in DOMAIN events : events[n] = ImagePurchased(i, p, ACCESS_PRICE)
    /\ \/ purchased = pre.purchased
       \/ \A i \in ImageIds, p \in Accounts :
              /\ pre.purchased[i][p] => purchased[i][p]
              /\ (purchased[i][p] /\ ~pre.purchased[i][p])
                 => /\ IsCall("purchaseImage") /\ Succeeded
                    /\ lastCall.sender = p
                    /\ lastCall.imageId = i
                    /\ lastCall.value = ACCESS_PRICE
    /\ events = <<>> => \A i \in ImageIds, p \in Accounts : ~purchased[i][p]

\* a record set by an earlier purchase is still set after a later
\* transaction of another kind has succeeded
C14_Witness ==
    /\ ~IsCall("purchaseImage") /\ lastCall # NoCall /\ Succeeded
    /\ ~NothingChanged
    /\ \E i \in ImageIds, p \in Addr : pre.purchased[i][p] /\ purchased[i][p]

----------------------------------------------------------------------------
\* C15: listEncryptedImage with an empty hash fails with "Invalid hash":
\* no id is allocated, no item is stored, getTotalImages is what it was, no
\* event is emitted, and nothing else changes.
C15_EmptyHashRejected ==
    (IsCall("listEncryptedImage") /\ lastCall.ipfsHash = "")
    => /\ FailedWith("Invalid hash")
       /\ nextImageId = pre.nextImageId
       /\ images = pre.images
       /\ getTotalImages = getTotalImagesAt(pre.nextImageId)
       /\ events = pre.events
       /\ NothingChanged

\* an empty hash is refused after an item has been listed: the next id is
\* still free
C15_Witness ==
    /\ IsCall("listEncryptedImage") /\ lastCall.ipfsHash = ""
    /\ FailedWith("Invalid hash")
    /\ getTotalImages = 1
    /\ getImage(2).status = "Image missing"

----------------------------------------------------------------------------
\* the ImageListed events among the first n events of the log
ListedEvents(n) == {m \in 1 .. n : events[m].name = "ImageListed"}

\* C16: the k-th successful listing returns the id k, which no item had
\* before; getTotalImages is the number of listings that have succeeded; it
\* never decreases and only a successful listing changes it.
C16_IdsMonotonic ==
    /\ getTotalImages = Cardinality(ListedEvents(Len(events)))
    /\ \A n \in ListedEvents(Len(events)) :
           events[n].imageId = Cardinality(ListedEvents(n))
    /\ getTotalImages >= getTotalImagesAt(pre.nextImageId)
    /\ getTotalImages # getTotalImagesAt(pre.nextImageId)
       => IsCall("listEncryptedImage") /\ Succeeded
    /\ (IsCall("listEncryptedImage") /\ Succeeded)
       => /\ lastResult.num = getTotalImagesAt(pre.nextImageId) + 1
          /\ getTotalImages = lastResult.num
          /\ ~ListedBefore(lastResult.num) /\ Listed(lastResult.num)
          /\ \A i \in ImageIds : ListedBefore(i) => i < lastResult.num

\* the second listing, made after a purchase of the first item, gets id 2
C16_Witness ==
    /\ IsCall("listEncryptedImage") /\ Succeeded
    /\ lastResult.num = 2
    /\ getTotalImages = 2
    /\ \E p \in Addr : purchased[1][p]

----------------------------------------------------------------------------
\* An item is stored under an id iff the id is between 1 and getTotalImages;
\* getImage and hasPurchased succeed for such an id and fail with "Image
\* missing" for every other.
C17_ViewsFindExactlyTheListed ==
    \A i \in ImageIds :
        LET status == IF 1 <= i /\ i <= getTotalImages THEN "ok" ELSE "Image missing"
        IN  /\ Listed(i) <=> status = "ok"
            /\ getImage(i).status = status
            /\ \A p \in Accounts : hasPurchased(i, p).status = status

\* purchaseImage of an id without item fails with "Image missing" and
\* changes nothing.
C17_PurchaseOfMissing ==
    (IsCall("purchaseImage") /\ ~ListedBefore(lastCall.imageId))
    => FailedWith("Image missing") /\ NothingChanged

C17_GrantOfMissing == IsCall("grantAccess") /\ ~ListedBefore(lastCall.imageId)

\* C17 as stated: items are stored under the ids 1 .. getTotalImages;
\* getImage and hasPurchased succeed for these ids; for every other id
\* getImage, hasPurchased, purchaseImage and grantAccess fail with "Image
\* missing" and change nothing.
C17_MissingIsNotFound ==
    /\ C17_ViewsFindExactlyTheListed
    /\ C17_PurchaseOfMissing
    /\ C17_GrantOfMissing => FailedWith("Image missing") /\ NothingChanged

\* C17 as amended: the same, except that grantAccess for an id without item
\* fails with "Invalid account" when the account to grant is the zero
\* address, which is checked before the id.
C17_MissingIsRejected ==
    /\ C17_ViewsFindExactlyTheListed
    /\ C17_PurchaseOfMissing
    /\ C17_GrantOfMissing
       => /\ FailedWith(IF lastCall.account = ZeroAddress THEN "Invalid account"
                        ELSE "Image missing")
          /\ NothingChanged

\* with one item listed, the purchase of the id after the last at the fixed
\* price is refused
C17_Witness ==
    /\ IsCall("purchaseImage")
    /\ getTotalImages = 1
    /\ lastCall.imageId = getTotalImages + 1
    /\ lastCall.value = ACCESS_PRICE
    /\ FailedWith("Image missing")
    /\ getImage(1).status = "ok" /\ getImage(0).status = "Image missing"

----------------------------------------------------------------------------
\* C18: getImage returns for a listed item the creator, the hash, the handle
\* and the time of its listing, and no later listing, purchase or grant
\* changes what it returns.
C18_ItemImmutable ==
    /\ \/ images = pre.images
       \/ \A i \in ImageIds :
              ListedBefore(i)
              => /\ images[i] = pre.images[i]
                 /\ getImage(i) = getImageAt(pre.images, i)
    /\ (IsCall("listEncryptedImage") /\ Succeeded)
       => LET item == getImage(lastResult.num).image
          IN  /\ item.creator = lastCall.sender
              /\ item.ipfsHash = lastCall.ipfsHash
              /\ item.createdAt = pre.blockTimestamp
              /\ cleartext[item.encryptedKey] = lastCall.secret
              /\ \A j \in ImageIds :
                     ListedBefore(j) => pre.images[j].encryptedKey # item.encryptedKey
    /\ \A n \in DOMAIN events :
           events[n].name = "ImageListed"
           => LET item == getImage(events[n].imageId).image
              IN  /\ item.creator = events[n].account
                  /\ item.ipfsHash = events[n].ipfsHash
                  /\ cleartext[item.encryptedKey] = Secrets[events[n].imageId]

\* the first item is purchased after the second was listed, and is as it
\* was listed
C18_Witness ==
    /\ IsCall("purchaseImage") /\ Succeeded
    /\ lastCall.imageId = 1
    /\ Listed(2)
    /\ getImage(1).image.createdAt = 1
    /\ getImage(2).image.createdAt > 1
    /\ getImage(1).image = pre.images[1]

----------------------------------------------------------------------------
\* C19: a purchase that succeeds appends to the event log exactly one
\* ImagePurchased(item, buyer, fixed price) followed by one
\* AccessGranted(item, buyer); a purchase that fails leaves the log as it was.
C19_PurchaseEvents ==
    IsCall("purchaseImage")
    => IF Succeeded
       THEN events = pre.events \o
                     <<ImagePurchased(lastCall.imageId, lastCall.sender, ACCESS_PRICE),
                       AccessGranted(lastCall.imageId, lastCall.sender)>>
       ELSE events = pre.events

\* the purchase of the second item: its two events follow the two listings
C19_Witness ==
    /\ IsCall("purchaseImage") /\ Succeeded
    /\ lastCall.imageId = 2
    /\ Len(pre.events) = 2
    /\ events[2].name = "ImageListed"
    /\ events[3] = ImagePurchased(2, lastCall.sender, ACCESS_PRICE)
    /\ events[4] = AccessGranted(2, lastCall.sender)
    /\ Len(events) = Len(pre.events) + 2

----------------------------------------------------------------------------
(* What anyone can read: the numbers in the item records and in the event  *)
(* log of the contract, and the clear part of the payloads in the blob     *)
(* store.  Addresses, hashes and content ids are not numbers and hold no   *)
(* key.                                                                     *)

LedgerNumbers ==
    UNION {{images[i].encryptedKey, images[i].createdAt} : i \in {j \in ImageIds : Listed(j)}}
    \cup UNION {{events[n].imageId, events[n].pricePaid} : n \in DOMAIN events}

StoredCids == {c \in Cids : pseudoStorage[c] # NoPayload}

BlobNumbers ==
    UNION {{pseudoStorage[c].header[n] : n \in DOMAIN pseudoStorage[c].header} : c \in StoredCids}

\* the keys that exist: those sealed in a listing, those a stored payload is
\* encrypted under, and the one the page has prepared
KeysInUse ==
    {cleartext[images[i].encryptedKey] : i \in {j \in ImageIds : Listed(j)}}
    \cup {pseudoStorage[c].body.key : c \in StoredCids}
    \cup (IF page.prepared THEN {page.keyBigInt} ELSE {})

\* C20: no key in use is among the numbers that the item records, the event
\* log or the clear part of a stored payload hold; an item record holds the
\* handle of its sealed key, and a stored payload an initialisation vector
\* followed by ciphertext.
C20_NoKeyInPublicStores ==
    /\ KeysInUse \cap (LedgerNumbers \cup BlobNumbers) = {}
    /\ \A i \in ImageIds :
           Listed(i) => /\ images[i].encryptedKey \in Handles
                        /\ cleartext[images[i].encryptedKey] \in KeysInUse
                        /\ images[i].encryptedKey # cleartext[images[i].encryptedKey]
    /\ \A c \in StoredCids :
           /\ Len(pseudoStorage[c].header) = 1
           /\ pseudoStorage[c].header[1] \in Ivs

\* an item published by the page has been purchased: its record, its
\* events and its payload are public, its key is sealed
C20_Witness ==
    /\ IsCall("purchaseImage") /\ Succeeded
    /\ LET item == images[lastCall.imageId]
       IN  /\ item.ipfsHash \in StoredCids
           /\ pseudoStorage[item.ipfsHash].body.key = cleartext[item.encryptedKey]
           /\ cleartext[item.encryptedKey] \in WalletKeys
           /\ userDecrypt(lastCall.sender, lastCall.imageId).num = cleartext[item.encryptedKey]

----------------------------------------------------------------------------
\* C21: the key under which the page encrypts a file is a digest of the
\* wallet's private key and so a different value from the secret that the
\* page seals for the listing: whenever the page holds a prepared encryption,
\* the key of its payload is not the number it will seal, and the payload
\* stored for a listed item is not encrypted under the item's sealed secret.
C21_ContentKeyDiffersFromSecret ==
    /\ page.prepared => page.payload.body.key # page.keyBigInt
    /\ \A i \in ImageIds :
           (Listed(i) /\ images[i].ipfsHash \in StoredCids)
               => pseudoStorage[images[i].ipfsHash].body.key
                      # cleartext[images[i].encryptedKey]

----------------------------------------------------------------------------
\* C26: in every state, the creator of a listed item has no purchase record
\* for it and is authorized for it all the same.
C26_CreatorHasNoPurchaseRecord ==
    \A i \in ImageIds :
        Listed(i) => /\ ~purchased[i][CreatorOf(i)]
                     /\ IsAuthorized(i, CreatorOf(i))

\* the creator has offered the exact price for its own item, which another
\* account has bought, and was turned away
C26_Witness ==
    /\ IsCall("purchaseImage")
    /\ Listed(lastCall.imageId)
    /\ lastCall.sender = CreatorOf(lastCall.imageId)
    /\ lastCall.value = ACCESS_PRICE
    /\ FailedWith("Creator restricted")
    /\ \E p \in Addr : purchased[lastCall.imageId][p]
    /\ ~purchased[lastCall.imageId][lastCall.sender]
    /\ IsAuthorized(lastCall.imageId, lastCall.sender)

----------------------------------------------------------------------------
(* Payments per item and account *)

Buyers(i) == {p \in Addr : purchased[i][p]}
\* what an account has paid for the items it holds a record of, and what it
\* has received for the records of the items it created, at the fixed price
PaidBy(a) == ACCESS_PRICE * Cardinality({i \in ImageIds : purchased[i][a]})
ReceivedBy(a) ==
    ACCESS_PRICE * Cardinality({ip \in ImageIds \X Addr :
                                   /\ Listed(ip[1])
                                   /\ CreatorOf(ip[1]) = a
                                   /\ purchased[ip[1]][ip[2]]})
PurchasedEvents(i) ==
    {n \in DOMAIN events : events[n].name = "ImagePurchased" /\ events[n].imageId = i}

\* C27: an account pays at most once for an item.  A call moves funds only
\* when it is a purchase that succeeds, by an account that had no record of
\* the item, and then exactly the price moves from the buyer to the creator;
\* a retry by an account that has the record moves nothing.  So in every
\* state every account has paid the price once for each item it has a record
\* of and has received the price once for each record of an item it created,
\* and the log holds one payment of the price per record.
C27_PaysAtMostOnce ==
    /\ IsCall("purchaseImage")
           => LET i == lastCall.imageId
                  p == lastCall.sender
              IN  /\ pre.purchased[i][p] => balance = pre.balance
                  /\ balance # pre.balance
                         => /\ Succeeded
                            /\ purchased[i][p]
                            /\ balance = [pre.balance EXCEPT
                                             ![p] = @ - ACCESS_PRICE,
                                             ![CreatorOf(i)] = @ + ACCESS_PRICE]
    /\ (IsCall("listEncryptedImage") \/ IsCall("grantAccess")) => balance = pre.balance
    /\ \A a \in Addr : balance[a] = InitBalance - PaidBy(a) + ReceivedBy(a)
    /\ \A i \in ImageIds :
           /\ Cardinality(PurchasedEvents(i)) = Cardinality(Buyers(i))
           /\ \A n \in PurchasedEvents(i) :
                  /\ events[n].pricePaid = ACCESS_PRICE
                  /\ events[n].account \in Buyers(i)

\* an account that has bought an item tries again with the exact price: it
\* has paid the price once, and the creator has received it once
C27_Witness ==
    /\ IsCall("purchaseImage")
    /\ lastCall.value = ACCESS_PRICE
    /\ pre.purchased[lastCall.imageId][lastCall.sender]
    /\ FailedWith("Already purchased")
    /\ balance[lastCall.sender] = InitBalance - ACCESS_PRICE
    /\ balance[CreatorOf(lastCall.imageId)] = InitBalance + ACCESS_PRICE
    /\ Buyers(lastCall.imageId) = {lastCall.sender}

----------------------------------------------------------------------------
(* The error of a purchase that breaks several rules at once *)

Buyer == lastCall.sender
Item == lastCall.imageId
Missing == ~ListedBefore(Item)
OwnItem == ListedBefore(Item) /\ Buyer = CreatorBefore(Item)
WrongPrice == lastCall.value # ACCESS_PRICE
HadRecord == pre.purchased[Item][Buyer]

\* C29 as stated: the error of a purchase is the first that applies of
\* "Image missing", "Creator restricted", "Incorrect price" and "Already
\* purchased"; an account that has the record and sends another amount than
\* the price gets "Incorrect price".
C29_PriceBeforeRecord ==
    IsCall("purchaseImage") =>
        /\ Missing => FailedWith("Image missing")
        /\ OwnItem => FailedWith("Creator restricted")
        /\ (~Missing /\ ~OwnItem /\ WrongPrice) => FailedWith("Incorrect price")
        /\ (~Missing /\ ~OwnItem /\ ~WrongPrice /\ HadRecord)
               => FailedWith("Already purchased")

\* C29: the error of a purchase is the first that applies of "Image
\* missing", "Creator restricted", "Already purchased" and "Incorrect price";
\* an account that has the record gets "Already purchased" whatever it sends,
\* and a purchase that breaks none of the four rules fails only if the payout
\* is refused.
C29_RecordBeforePrice ==
    IsCall("purchaseImage") =>
        /\ Missing => FailedWith("Image missing")
        /\ OwnItem => FailedWith("Creator restricted")
        /\ (~Missing /\ ~OwnItem /\ HadRecord) => FailedWith("Already purchased")
        /\ (~Missing /\ ~OwnItem /\ ~HadRecord /\ WrongPrice)
               => FailedWith("Incorrect price")
        /\ (~Missing /\ ~OwnItem /\ ~HadRecord /\ ~WrongPrice)
               => Succeeded \/ FailedWith("Payout failed")

\* an account that has the record of an item has sent another amount than
\* the price for it
C29_Witness ==
    /\ IsCall("purchaseImage")
    /\ ~Missing /\ ~OwnItem
    /\ HadRecord
    /\ WrongPrice
    /\ FailedWith("Already purchased")

----------------------------------------------------------------------------
----------------------------------------------------------------------------
(* What the event log tells *)

EventsOf(name, i) ==
    {n \in DOMAIN events : events[n].name = name /\ events[n].imageId = i}
AccountsOf(name, i) == {events[n].account : n \in EventsOf(name, i)}

----------------------------------------------------------------------------
\* C37: a grant of access writes no purchase record and moves no funds,
\* whether it succeeds or not; and an account that could already unseal the
\* key of an item it neither created nor purchased, and that sends the price
\* to a creator who accepts it, purchases the item: the price reaches the
\* creator and the record is written, the purchase having been on offer
\* because hasPurchased answered false for the account.
C37_RecordIndependentOfGrants ==
    /\ IsCall("grantAccess")
           => /\ purchased = pre.purchased
              /\ balance = pre.balance
              /\ \A e \in {events[n] : n \in (Len(pre.events) + 1) .. Len(events)} :
                     e.name = "AccessGranted"
    /\ (/\ IsCall("purchaseImage")
        /\ ListedBefore(lastCall.imageId)
        /\ CouldUnseal(lastCall.sender, lastCall.imageId)
        /\ lastCall.sender # CreatorBefore(lastCall.imageId)
        /\ ~pre.purchased[lastCall.imageId][lastCall.sender]
        /\ lastCall.value = ACCESS_PRICE
        /\ lastCall.sent)
           => /\ Succeeded
              /\ ~hasPurchasedAt(pre.images, pre.purchased,
                                 lastCall.imageId, lastCall.sender).flag
              /\ purchased[lastCall.imageId][lastCall.sender]
              /\ balance[CreatorOf(lastCall.imageId)]
                     = pre.balance[CreatorOf(lastCall.imageId)] + ACCESS_PRICE
              /\ balance[lastCall.sender] = pre.balance[lastCall.sender] - ACCESS_PRICE
              /\ balance[Gallery] = pre.balance[Gallery]

\* an account that the creator had granted access to has purchased the item
C37_Witness ==
    /\ IsCall("purchaseImage") /\ Succeeded
    /\ GrantedByCreator(lastCall.imageId, lastCall.sender)
    /\ CouldUnseal(lastCall.sender, lastCall.imageId)
    /\ ~pre.purchased[lastCall.imageId][lastCall.sender]
    /\ purchased[lastCall.imageId][lastCall.sender]
    /\ balance[CreatorOf(lastCall.imageId)]
           = pre.balance[CreatorOf(lastCall.imageId)] + ACCESS_PRICE

----------------------------------------------------------------------------
(* The listing workflow of the page, under PageSpec *)

Uploads == pseudoStorage' # pseudoStorage
SubmitsListing == ~inflight.publishing /\ inflight'.publishing
ListingMined == inflight.publishing /\ nextImageId' # nextImageId
PublishFails ==
    inflight.publishing /\ ~inflight'.publishing /\ nextImageId' = nextImageId

C32_Step ==
    /\ Uploads
           => /\ page.prepared
              /\ \E c \in Cids :
                     /\ pseudoStorage[c] = NoPayload
                     /\ pseudoStorage' = [pseudoStorage EXCEPT ![c] = page.payload]
                     /\ page' = [page EXCEPT !.ipfsHash = c]
    /\ SubmitsListing
           => /\ page.prepared
              /\ page.ipfsHash # ""
              /\ pseudoStorage[page.ipfsHash] # NoPayload
              /\ inflight'.ipfsHash = page.ipfsHash
              /\ inflight'.keyBigInt = page.keyBigInt
              /\ UNCHANGED <<page, chain>>
    /\ nextImageId' # nextImageId
           => /\ inflight.publishing
              /\ images'[nextImageId'].ipfsHash = inflight.ipfsHash
              /\ pseudoStorage[inflight.ipfsHash] # NoPayload
              /\ cleartext'[images'[nextImageId'].encryptedKey] = inflight.keyBigInt
              /\ ~inflight'.publishing
              /\ page' = NoPage
    /\ PublishFails => UNCHANGED <<page, chain, pseudoStorage>>

\* C32: the page stores a payload only when it holds a prepared encryption,
\* and stores that one; it submits a listing only when it holds a prepared
\* encryption and the content id of a stored payload, and the listing is made
\* of that content id and that key; when the listing is mined the page holds
\* no file, no prepared encryption and no content id; when the publication
\* fails the page, the store and the contract stay as they are.
C32_WorkflowOrdered == [][C32_Step]_vars

\* a first listing has been mined and has cleared the page, and the page
\* has encrypted, uploaded and submitted a second one
C32_Witness ==
    /\ inflight.publishing
    /\ page.prepared
    /\ inflight.ipfsHash = page.ipfsHash
    /\ inflight.keyBigInt = page.keyBigInt
    /\ pseudoStorage[page.ipfsHash] = page.payload
    /\ nextImageId = 1
    /\ images[1].ipfsHash # page.ipfsHash

----------------------------------------------------------------------------
\* C34: the payload stored under the content id of a listed item was
\* encrypted under the key that is sealed for the item, whatever the order
\* in which the user has selected, encrypted, uploaded and published.
C34_ListedBlobUnderSealedKey ==
    \A i \in ImageIds :
        (Listed(i) /\ images[i].ipfsHash \in StoredCids)
            => pseudoStorage[images[i].ipfsHash].body.key
                   = cleartext[images[i].encryptedKey]

----------------------------------------------------------------------------
\* C35: whenever the page holds a prepared encryption it is the encryption
\* of the file that is selected, and whenever it holds a content id the
\* store holds the prepared payload under it, also when the user selects a
\* file while an encryption is under way.
C35_PreparedIsOfSelectedFile ==
    /\ page.prepared => page.payload.body.plain = page.selectedFile
    /\ page.ipfsHash # ""
           => page.prepared /\ pseudoStorage[page.ipfsHash] = page.payload

----------------------------------------------------------------------------
(* The unlock flow of the page, under UnlockSpec *)

UnlockSteps == <<"signTypedData", "userDecrypt", "fetchFromIpfs", "decryptContent">>
Unlocking == gallery.unlock.step # ""
UnlockEnds == Unlocking /\ gallery'.unlock.step = ""
ErrorReported == gallery'.alert # ""
Recorded(entry) == <<entry.decryptedImageUrl, entry.decryptedKeyHex>>

C33_Step ==
    LET i == gallery.unlock.item
        done == gallery'.unlock.ops
        payload == fetchFromIpfs(images[i].ipfsHash).payload
    IN  /\ UnlockEnds
            => /\ ~gallery'.items[i].decrypting
               /\ done = SubSeq(UnlockSteps, 1, Len(done))
               /\ done # UnlockSteps => ErrorReported
               /\ payload.body.key # cleartext[images[i].encryptedKey] => ErrorReported
               /\ ErrorReported
                      => Recorded(gallery'.items[i]) = Recorded(gallery.items[i])
               /\ ~ErrorReported
                      => /\ done = UnlockSteps
                         /\ gallery'.items[i].decryptedImageUrl = payload.body.plain
                         /\ payload.body.plain \in Files
                         /\ gallery'.items[i].decryptedKeyHex
                                = keyHexOf(cleartext[images[i].encryptedKey])
        /\ (Unlocking /\ ~UnlockEnds /\ gallery'.unlock # gallery.unlock)
            => /\ gallery'.unlock.ops = Append(gallery.unlock.ops, gallery.unlock.step)
               /\ gallery'.items = gallery.items
               /\ gallery'.alert = gallery.alert
        /\ (~Unlocking /\ gallery'.unlock.step = "")
            => gallery'.unlock.ops = gallery.unlock.ops

\* C33: an unlock that fails at one of its four steps (signature, unsealing,
\* fetch, decryption) makes none of the steps after it, reports the error,
\* records no picture and no key for the item (what the item showed before
\* stays) and resets the item's decrypting flag; an unlock that makes all
\* four steps resets the flag and records the picture and the key.
C33_UnlockAllOrNothing == [][C33_Step]_vars

\* the page shows the picture and the key of one item, and the unlock of
\* another has just failed at its last step, the decryption
C33_Witness ==
    /\ ~Unlocking
    /\ gallery.unlock.ops = UnlockSteps
    /\ gallery.alert = "OperationError"
    /\ \E i, j \in 1 .. nextImageId :
           /\ i # j
           /\ gallery.items[i].decryptedImageUrl \in Files
           /\ gallery.items[i].decryptedKeyHex = keyHexOf(cleartext[images[i].encryptedKey])
           /\ Recorded(gallery.items[j]) = <<"", <<>>>>
           /\ ~gallery.items[j].decrypting
           /\ gallery.items[j].hasAccess

----------------------------------------------------------------------------
(* Purchases that wait in their payout, under ReentrySpec *)

Waiting == frame # <<>>
Permitted(i) == acl[images[i].encryptedKey]

\* no purchase is recorded or paid twice: every account has paid the price
\* once per record it holds, and a purchase made for the waiting buyer and
\* item while the payout runs is turned away
C28_NotTwice ==
    /\ \A a \in Addr : balance[a] = InitBalance - PaidBy(a) + ReceivedBy(a)
    /\ (/\ Waiting
        /\ IsCall("purchaseImage")
        /\ lastCall.sender = frame[Len(frame)].sender
        /\ lastCall.imageId = frame[Len(frame)].imageId)
           => FailedWith("Already purchased") /\ NothingChanged

\* C28: in every state that a party can observe, the states in which a
\* purchase waits in its payout included, every account that has a purchase
\* record of an item is permitted for the item's key; and no call made while
\* the payout runs lets the purchase be recorded or paid twice.
C28_RecordedIsPermitted ==
    /\ \A i \in ImageIds, p \in Addr :
           (Listed(i) /\ purchased[i][p]) => p \in Permitted(i)
    /\ C28_NotTwice

\* C28 without the states in which a purchase waits in its payout: every
\* account that has a purchase record of an item is permitted for the item's
\* key, unless it is the buyer of a purchase of that item that waits in its
\* payout, which has its record already and is permitted only once the
\* payout has returned; and no call made while the payout runs lets the
\* purchase be recorded or paid twice.
C28_RecordedIsPermittedAfterPayout ==
    /\ \A i \in ImageIds, p \in Addr :
           (Listed(i) /\ purchased[i][p])
               => \/ p \in Permitted(i)
                  \/ \E n \in DOMAIN frame :
                         frame[n].imageId = i /\ frame[n].sender = p
    /\ \A n \in DOMAIN frame : purchased[frame[n].imageId][frame[n].sender]
    /\ C28_NotTwice

\* while a purchase waits in its payout, its buyer has the record and is not
\* permitted yet, and a second purchase made for it at the exact price has
\* been turned away
C28_Witness ==
    /\ Waiting
    /\ IsCall("purchaseImage")
    /\ lastCall.sender = frame[Len(frame)].sender
    /\ lastCall.imageId = frame[Len(frame)].imageId
    /\ lastCall.value = ACCESS_PRICE
    /\ FailedWith("Already purchased")
    /\ purchased[lastCall.imageId][lastCall.sender]
    /\ lastCall.sender \notin Permitted(lastCall.imageId)

----------------------------------------------------------------------------
(* Properties of utils/crypto.ts, under CryptoSpec *)

Encrypted == crypto.op = "encryptContent"
Decrypted == crypto.op = "decryptContent"
Is256Bit(keyHex) ==
    hexToBytes(keyHex).status = "ok" /\ Len(hexToBytes(keyHex).bytes) = 32

\* C22: encryptContent succeeds for every content, the empty one included,
\* under every key of 256 bits, and returns the initialisation vector followed
\* by as many bytes as the content has and a tag; decryptContent of that
\* payload under the same key returns exactly the content.
C22_RoundTrip ==
    /\ (Encrypted /\ Is256Bit(crypto.keyHex))
           => /\ crypto.out.status = "ok"
              /\ Len(crypto.out.bytes)
                     = AES_IV_LENGTH + Len(crypto.plain) + AES_TAG_LENGTH
    /\ (Decrypted /\ crypto.payload = crypto.sealed /\ crypto.keyHex = crypto.sealedWith)
           => /\ crypto.out.status = "ok"
              /\ crypto.out.bytes = crypto.plain

\* the empty content has been encrypted and decrypted again
C22_Witness ==
    /\ Decrypted
    /\ crypto.plain = <<>>
    /\ crypto.payload = crypto.sealed
    /\ Len(crypto.payload) = AES_IV_LENGTH + AES_TAG_LENGTH
    /\ crypto.keyHex = crypto.sealedWith
    /\ crypto.out = Returned(<<>>, <<"importKey", "decrypt">>)

\* C23 as stated: decryptContent refuses every payload of fewer than 28
\* bytes as too short, before it attempts any cryptographic operation.
C23_Under28IsTooShort ==
    (Decrypted /\ Len(crypto.payload) < AES_IV_LENGTH + AES_TAG_LENGTH)
        => crypto.out = Thrown("Encrypted payload too short", <<>>)

\* C23: decryptContent fails for every payload of fewer than 28 bytes.  It
\* refuses a payload as too short, before any cryptographic operation, exactly
\* when the payload has at most 12 bytes; a payload of 13 to 27 bytes is
\* refused for its key when the key is not of 256 bits, and otherwise by
\* AES-GCM after the key has been imported.
C23_ShortPayloadFails ==
    Decrypted =>
        /\ Len(crypto.payload) < AES_IV_LENGTH + AES_TAG_LENGTH
               => crypto.out.status # "ok" /\ crypto.out.bytes = <<>>
        /\ crypto.out = Thrown("Encrypted payload too short", <<>>)
               <=> Len(crypto.payload) <= AES_IV_LENGTH
        /\ (/\ Len(crypto.payload) > AES_IV_LENGTH
            /\ Len(crypto.payload) < AES_IV_LENGTH + AES_TAG_LENGTH)
               => IF Is256Bit(crypto.keyHex)
                  THEN crypto.out = Thrown("OperationError", <<"importKey", "decrypt">>)
                  ELSE /\ crypto.out.ops = <<>>
                       /\ crypto.out.status \in {"Invalid hex string",
                                                 "AES key must be 32 bytes (256 bits)"}

\* a payload of 13 bytes has gone through the length check and the import of
\* the key, and was refused by AES-GCM
C23_Witness ==
    /\ Decrypted
    /\ Len(crypto.payload) = AES_IV_LENGTH + 1
    /\ Is256Bit(crypto.keyHex)
    /\ crypto.out = Thrown("OperationError", <<"importKey", "decrypt">>)

\* C36: for every private key of a wallet, with or without leading zero
\* bytes, the key that the buyer imports (the unsealed integer written in
\* hexadecimal and padded with zeros to 64 digits) is the 32 bytes that the
\* creator imported from the private key, and it opens the creator's payload.
C36_KeyEncodingRoundTrip ==
    (Decrypted /\ crypto.unsealed)
        => /\ crypto.keyBigInt = BigInt(crypto.sealedWith)
           /\ importAesKey(crypto.keyHex).status = "ok"
           /\ Len(importAesKey(crypto.keyHex).bytes) = 32
           /\ importAesKey(crypto.keyHex).bytes = importAesKey(crypto.sealedWith).bytes
           /\ crypto.payload = crypto.sealed
                  => crypto.out = Returned(crypto.plain, <<"importKey", "decrypt">>)

\* the buyer has opened a payload that was encrypted under a private key
\* with two leading zero bytes, whose integer has 60 digits
C36_Witness ==
    /\ Decrypted
    /\ crypto.unsealed
    /\ SubSeq(crypto.sealedWith, 3, 6) = <<0, 0, 0, 0>>
    /\ Len(crypto.keyBigInt) = 60
    /\ Len(crypto.keyHex) = 66
    /\ crypto.plain # <<>>
    /\ crypto.payload = crypto.sealed
    /\ crypto.out = Returned(crypto.plain, <<"importKey", "decrypt">>)

\* C38: encryptContent and decryptContent fail for every key that does not
\* decode to exactly 32 bytes (shorter, longer, or with an odd number of
\* digits): they return no bytes, and encryptContent attempts no operation
\* of crypto.subtle; decryptContent attempts none either, the failure being
\* that of the key unless the payload has at most 12 bytes and is refused first.
C38_OnlyKeysOf256Bits ==
    ((Encrypted \/ Decrypted) /\ ~Is256Bit(crypto.keyHex))
        => /\ crypto.out.status # "ok"
           /\ crypto.out.bytes = <<>>
           /\ crypto.out.ops = <<>>
           /\ crypto.out.status =
                  IF Decrypted /\ Len(crypto.payload) <= AES_IV_LENGTH
                  THEN "Encrypted payload too short"
                  ELSE IF Len(IF startsWith0x(crypto.keyHex)
                              THEN SubSeq(crypto.keyHex, 3, Len(crypto.keyHex))
                              ELSE crypto.keyHex) % 2 = 1
                  THEN "Invalid hex string"
                  ELSE "AES key must be 32 bytes (256 bits)"

\* a whole payload was given to decryptContent with a key of 33 bytes
C38_Witness ==
    /\ Decrypted
    /\ crypto.payload = crypto.sealed
    /\ Len(crypto.keyHex) = 68
    /\ crypto.out = Thrown("AES key must be 32 bytes (256 bits)", <<>>)

----------------------------------------------------------------------------
(* Properties of the blob store, under StoreSpec *)

\* C25: the handles that the store has returned are pairwise distinct; what
\* the store keeps under a handle, and what a fetch of the handle returns, is
\* the payload that was in the caller's buffer when it was stored, whatever
\* was stored later and whatever the buffer holds now (a fetch made before the
\* handle was given out found nothing); a handle that was never returned is
\* not available.
C25_HandlesStable ==
    /\ \A m, n \in DOMAIN blobs.receipts :
           m # n => blobs.receipts[m].cid # blobs.receipts[n].cid
    /\ \A n \in DOMAIN blobs.receipts :
           LET r == blobs.receipts[n]
           IN  /\ fetchFromIpfs(r.cid).status = "ok"
               /\ fetchFromIpfs(r.cid).payload = r.payload
               /\ (blobs.fetched.cid = r.cid /\ blobs.fetched.status = "ok")
                      => blobs.fetched.payload = r.payload
    /\ \A c \in AskedCids :
           (\A n \in DOMAIN blobs.receipts : blobs.receipts[n].cid # c)
               => fetchFromIpfs(c).status # "ok"

\* a payload was stored, the buffer was changed and stored again, and the
\* first handle was fetched: it gives the first payload, not the buffer's
C25_Witness ==
    /\ Len(blobs.receipts) = 2
    /\ blobs.receipts[1].payload # blobs.receipts[2].payload
    /\ blobs.fetched.cid = blobs.receipts[1].cid
    /\ blobs.fetched.status = "ok"
    /\ blobs.fetched.payload = blobs.receipts[1].payload
    /\ blobs.buffer # blobs.receipts[1].payload

====
